---- MODULE Spec2Model ----
(***************************************************************************)
(* A model of the toolsy execution engine: Registry.Execute,               *)
(* Registry.ExecuteBatchStream and Registry.Shutdown (registry.go), the    *)
(* registry options (options.go) and the streaming handler builder         *)
(* (NewStreamTool).  Each goroutine that runs Execute is a call of the set *)
(* Calls; the calls 1..NumBatch are the goroutines of one                  *)
(* ExecuteBatchStream invocation, the others are direct Execute callers.   *)
(***************************************************************************)
EXTENDS Integers, Sequences, FiniteSets, TLC

\* ---------------------------------------------------------------- bounds
NumBatch == 2       \* calls handed to the one ExecuteBatchStream invocation
NumSolo == 1        \* direct Registry.Execute callers
MaxChunks == 3      \* fragments one handler invocation emits at most
MaxLen == 2         \* largest payload length of a fragment
MaxConc == 2        \* largest WithMaxConcurrency value tried
NumShutdown == 2    \* Shutdown callers
MaxChain == 2       \* longest decorator chain handed to Use
NumGen == 2         \* handlers built under one name
MaxDur == 2         \* longest timeout, in ticks

\* the fields of an input contract
MaxProps == 2

NumCalls == NumBatch + NumSolo
Calls == 1..NumCalls
BatchCalls == 1..NumBatch
SoloCalls == Calls \ BatchCalls
Shutdowns == 1..NumShutdown
FirstShutdown == {s \in Shutdowns : s <= 1}

\* ---------------------------------------------------------- error values
ErrNil == "nil"
ErrShutdown == "ErrShutdown"
ErrToolNotFound == "ErrToolNotFound"
ErrTimeout == "ErrTimeout"
CtxCanceled == "context.Canceled"
CtxDeadlineExceeded == "context.DeadlineExceeded"
ErrClient == "ClientError"
ErrSystem == "SystemError"
ErrSystemPanic == "SystemError(panic)"
ErrStreamAborted == "ErrStreamAborted"

\* errors.As(err, *SystemError)
IsSystemError(e) == e \in {ErrSystem, ErrSystemPanic}

\* errors.As(err, *ClientError)
IsClientError(e) == e = ErrClient

\* wrapYieldError: a sink rejection becomes an error that carries the
\* stream-aborted sentinel
wrapYieldError(e) == IF e = ErrNil THEN ErrNil ELSE ErrStreamAborted

\* wrapHandlerError: ClientError passes, anything else becomes SystemError
wrapHandlerError(e) ==
    IF e = ErrNil THEN ErrNil
    ELSE IF IsClientError(e) THEN e
    ELSE ErrSystem

\* ctx.Err() of a context in state c
CtxErr(c) ==
    IF c = "canceled" THEN CtxCanceled
    ELSE IF c = "deadline" THEN CtxDeadlineExceeded
    ELSE ErrNil

\* ------------------------------------------------------------ the state
VARIABLES
    tools,      \* r.tools: the registered handler names
    opts,       \* registryOptions: maxConcurrency, recoverPanics, the hooks that are set
    done,       \* r.done is closed
    running,    \* r.running, the in-flight WaitGroup counter
    sem,        \* len(r.sem), the admission slots held
    ctx,        \* the state of every caller context
    ex,         \* per call: the position and locals of its Execute
    obs,        \* per call: what the handler, the hooks and the sink saw
    yieldMu,    \* the holder of ExecuteBatchStream's yieldMu, 0 when free
    batch,      \* the ExecuteBatchStream invocation
    sd,         \* per Shutdown caller: position, drained, result
    crashed,    \* an unrecovered panic of a batch goroutine ended the process
    reg,        \* r.tools, r.rawTools and r.middlewares as Register and Use keep them
    regHist,    \* what was handed to Register and Use last (history, not program state)
    dcall,      \* per caller: a lookup and the descent through the decorators
    tmo,        \* one call's timeouts and the deadline of its context
    hx,         \* one run of a builder-made handler's execute closure
    sch         \* one construction of a handler's schema

\* the handler tables and the callers that look handlers up in them
regVars == <<reg, regHist, dcall>>

\* the state that Execute, ExecuteBatchStream and Shutdown never write
sideVars == <<regVars, tmo, hx, sch>>

vars == <<tools, opts, done, running, sem, ctx, ex, obs, yieldMu, batch, sd, crashed,
          sideVars>>

\* the handlers: "single" is built by NewTool and emits its one result,
\* "stream" is built by NewStreamTool and emits up to MaxChunks fragments;
\* no handler is ever registered under "missing"
Builders == {"single", "stream"}
Missing == "missing"

\* the context a call runs under: the batch's calls share the batch context
BatchCtx == 0
CtxOf(i) == IF i \in BatchCalls THEN BatchCtx ELSE i
ShutdownCtx(s) == 0 - s
CtxIds == {BatchCtx} \cup (Calls \ BatchCalls) \cup {ShutdownCtx(s) : s \in Shutdowns}

NoChunk == [CallID |-> 0, ToolName |-> "", IsError |-> FALSE, Len |-> 0]

\* var summary ExecutionSummary
NewSummary == [ChunksDelivered |-> 0, TotalBytes |-> 0, Error |-> ErrNil]

InitEx ==
    [pc |-> "idle", tool |-> "", emitted |-> 0, raw |-> NoChunk, cur |-> NoChunk,
     summary |-> NewSummary, panic |-> "none", err |-> ErrNil]

InitObs ==
    [slot |-> FALSE, admitted |-> FALSE, lateStart |-> FALSE, handler |-> 0,
     sinkCalls |-> 0, okAll |-> 0, okAllBytes |-> 0, okData |-> 0,
     okDataBytes |-> 0, seen |-> <<>>, rejected |-> FALSE, sinkPanic |-> FALSE, handlerPanic |-> FALSE, lateEmit |-> FALSE,
     chunkHook |-> 0, chunkHookBad |-> FALSE,
     afterCalls |-> 0, afterSummary |-> NewSummary,
     errChunk |-> NoChunk, errChunks |-> 0,
     beforeCalls |-> 0, hookPanic |-> "none", active |-> FALSE]

\* ------------------------------------------------- the handler tables
\* the decorators: WithLogging and WithRecovery
Middlewares == {"logging", "recovery"}

\* the argument lists of Use: any decorators in any order, none included
Chains == UNION {[1..n -> Middlewares] : n \in 0..MaxChain}

\* the handlers the builders return: a name, the identity of the value
\* and, outermost first, the decorators wrapped around it (none yet)
Handlers == [name : Builders, id : 1..NumGen, wraps : {<<>>}]

\* a Middleware applied to a Tool: a wrapper whose next is the tool
Wrap(m, t) == [t EXCEPT !.wraps = <<m>> \o @]

\* the Tool at the bottom of the wrappers
Unwrapped(t) == [t EXCEPT !.wraps = <<>>]

\* the loop that wraps with the decorators from the first of the list on,
\* which leaves the last of the list outermost
RECURSIVE ApplyChainForward(_, _)
ApplyChainForward(ms, t) ==
    IF ms = <<>> THEN t ELSE ApplyChainForward(Tail(ms), Wrap(Head(ms), t))

\* for i := len(middlewares) - 1; i >= 0; i-- { t = middlewares[i](t) }
RECURSIVE ApplyChain(_, _)
ApplyChain(ms, t) ==
    IF ms = <<>> THEN t
    ELSE ApplyChain(SubSeq(ms, 1, Len(ms) - 1), Wrap(ms[Len(ms)], t))

\* a map assignment that leaves a key already present alone
MapSetKeepsOld(m, k, v) ==
    [x \in DOMAIN m \cup {k} |-> IF x \in DOMAIN m THEN m[x] ELSE v]

\* m[k] = v on a Go map
MapSet(m, k, v) ==
    [x \in DOMAIN m \cup {k} |-> IF x = k THEN v ELSE m[x]]

\* the tables after one handler was registered under each name of names,
\* Use never called
TablesOf(names) ==
    [tools |-> [n \in names |-> [name |-> n, id |-> 1, wraps |-> <<>>]],
     rawTools |-> [n \in names |-> [name |-> n, id |-> 1, wraps |-> <<>>]],
     middlewares |-> <<>>]
HistOf(names) ==
    [last |-> [n \in names |-> [name |-> n, id |-> 1, wraps |-> <<>>]],
     chain |-> <<>>,
     afterUse |-> [n \in names |-> FALSE],
     replaced |-> [n \in names |-> FALSE],
     rechained |-> FALSE]

NoTool == [name |-> "", id |-> 0, wraps |-> <<>>]

\* a caller that has not looked a handler up yet
InitDcall ==
    [pc |-> "idle", kind |-> "", name |-> "", tool |-> NoTool, depth |-> 0,
     before |-> <<>>, after |-> <<>>, ran |-> NoTool,
     expect |-> NoTool, chain |-> <<>>, afterUse |-> FALSE,
     replaced |-> FALSE, rechained |-> FALSE]

\* one handler registered under each name of r.tools, Use never called,
\* nobody looking a handler up
IdleTables ==
    /\ reg = TablesOf(tools)
    /\ regHist = HistOf(tools)
    /\ dcall = [c \in SoloCalls |-> InitDcall]

\* ------------------------------------------------------------- timeouts
\* the deadline of a context that has none
Never == MaxDur + 1

\* the values handed to WithDefaultTimeout, WithTimeout and
\* WithTimeoutMiddleware: positive, zero or negative
Durations == (0 - 1)..MaxDur

\* no timeouts under consideration
NoTmo ==
    [pc |-> "idle", default |-> 0, own |-> 0, mws |-> <<>>, parent |-> Never,
     applied |-> 0, regDl |-> Never, dl |-> Never, depth |-> 0, seen |-> Never]

IdleTime == tmo = NoTmo

\* ------------------------------------------- errors as wrapping chains
\* an error value with what it wraps, outermost first: a *ClientError, a
\* *SystemError, a sentinel, "wrap" for any other wrapping error and
\* "plain" for an errors.New value; nil is the empty chain
ErrValidation == "ErrValidation"
NilErr == <<>>

\* errors.Is(err, layer) and errors.As(err, &layer): some error of the
\* chain is the sentinel or of the type
Carries(e, layer) == \E k \in 1..Len(e) : e[k] = layer

\* IsClientError and IsSystemError on a chain
WrapsClientError(e) == Carries(e, ErrClient)
WrapsSystemError(e) == Carries(e, ErrSystem)

\* wrapJSONParseError: a ClientError that wraps nothing
JSONParseError == <<ErrClient>>

\* validateAgainstSchema: &ClientError{Reason: ..., Err: ErrValidation}
SchemaError == <<ErrClient, ErrValidation>>

\* wrapYieldError on a chain: the sink's error under the stream-aborted
\* sentinel
wrapYieldChain(e) == IF e = NilErr THEN NilErr ELSE <<ErrStreamAborted>> \o e

\* a builder that wraps every error of the handler function
wrapHandlerChainAll(e) == IF e = NilErr THEN NilErr ELSE <<ErrSystem>> \o e

\* wrapHandlerError on a chain: a ClientError passes, any other error
\* becomes &SystemError{Err: err}
wrapHandlerChain(e) ==
    IF e = NilErr THEN NilErr
    ELSE IF WrapsClientError(e) THEN e
    ELSE <<ErrSystem>> \o e

\* ParseAndValidate passing every error of Validate on as it is
Layer2ErrorAsIs(e) == e

\* ParseAndValidate on the error of Layer 2: a ClientError passes, any
\* other error becomes &ClientError{Reason: err.Error(), Err: ErrValidation}
Layer2Error(e) ==
    IF WrapsClientError(e) THEN e ELSE <<ErrClient, ErrValidation>>

\* the builders: NewTool, NewStreamTool and NewDynamicTool
ToolBuilders == {"single", "stream", "dynamic"}

\* the payloads: not JSON; JSON that violates the schema; JSON that fits
\* the schema but not the Go type (an integer too large for int); JSON
\* that decodes
Payloads == {"malformed", "invalid", "undecodable", "wellformed"}

\* the input shapes: a struct without Validate, one with Validate on the
\* value receiver, one with Validate on the pointer receiver, and a
\* pointer type whose struct has Validate
Shapes == {"plain", "value", "pointer", "ptrtype"}

\* what Validate and the handler function can return
RuleErrors ==
    {NilErr, <<"plain">>, <<ErrClient>>, <<ErrClient, ErrValidation>>,
     <<"wrap", ErrClient>>, <<ErrSystem, "plain">>}
FnErrors ==
    {NilErr, <<"plain">>, <<ErrClient>>, <<"wrap", ErrClient>>,
     <<ErrSystem, "plain">>, <<ErrStreamAborted, "plain">>,
     <<"wrap", ErrStreamAborted, "plain">>}

\* no handler run under consideration
NoHx ==
    [pc |-> "idle", builder |-> "", payload |-> "", shape |-> "", rule |-> NilErr,
     stages |-> <<>>, pverr |-> NilErr, validateCalls |-> 0, fnCalls |-> 0,
     sinkCalls |-> 0, rejected |-> FALSE, yieldErr |-> NilErr, afterReject |-> 0,
     fnErr |-> NilErr, ret |-> NilErr, panicked |-> FALSE, data |-> <<>>]

IdleTool == hx = NoHx

\* no schema under construction
NoSch == [pc |-> "idle", builder |-> "", strict |-> FALSE, in |-> <<>>, out |-> <<>>]

IdleSchema == sch = NoSch

\* what no specification of the engine proper touches
IdleSide == IdleTables /\ IdleTime /\ IdleTool /\ IdleSchema

\* NewRegistry: the semaphore exists only for a positive maxConcurrency
SemEnabled == opts.maxConcurrency > 0

\* the registry after NewRegistry(opts...) and Register, nothing started
InitIdle ==
    /\ done = FALSE
    /\ running = 0
    /\ sem = 0
    /\ ex = [i \in Calls |-> InitEx]
    /\ obs = [i \in Calls |-> InitObs]
    /\ yieldMu = 0
    /\ batch = [pc |-> "idle", n |-> 0, ret |-> ErrNil, afterShutdown |-> FALSE]
    /\ sd = [s \in Shutdowns |-> [pc |-> "idle", first |-> FALSE, drained |-> FALSE, ret |-> ErrNil]]
    /\ crashed = FALSE

\* an idle registry whose callers all hold contexts that have not ended
InitRegistry ==
    /\ InitIdle
    /\ ctx = [c \in CtxIds |-> "live"]

\* concurrent callers of a registry that holds the single-result handler;
\* NewRegistry's default recoverPanics, both hooks set, any concurrency limit
Init ==
    /\ tools = {"single"}
    /\ opts \in [maxConcurrency : 0..MaxConc, recoverPanics : {TRUE},
                 onAfter : {TRUE}, onChunk : {TRUE},
                 onBefore : {FALSE}, hookPanics : {{}}]
    /\ InitRegistry
    /\ IdleSide

\* ------------------------------------------------------- Registry.Execute
\* what the goroutine of call i does once Execute has returned e: a direct
\* caller is finished; a batch goroutine sends a failure as an error fragment
AfterExecute(i, e) ==
    IF i \in BatchCalls /\ e # ErrNil THEN "errchunk" ELSE "returned"

\* Execute has returned normally for call i (its result is ex[i].err)
Returned(i) == ex[i].pc \in {"errchunk", "errsink", "returned", "dead"}

\* Execute was left by a panic
Panicked(i) == ex[i].pc = "panicked"

Finished(i) == Returned(i) \/ Panicked(i)

\* call i may start: a direct caller at any time, a batch goroutine once
\* ExecuteBatchStream has launched it
MayStart(i) ==
    /\ ex[i].pc = "idle"
    /\ i \in BatchCalls => (batch.pc = "wait" /\ i <= batch.n)

\* Execute without its shutdown check
ShutdownCheckSkipped == FALSE

\* the shutdown check under r.mu: select on r.done
ShutdownCheck == done

\* a lookup that finds a handler under every name
RegisteredAlways(name) == TRUE

\* tool, ok := r.tools[call.ToolName]
Registered(name) == name \in tools

\* Execute, from r.mu.Lock() to r.mu.Unlock(): the shutdown check, the
\* lookup and running.Add(1)
ExecuteBegin(i) ==
    /\ ~crashed
    /\ MayStart(i)
    /\ \E name \in tools \cup {Missing} :
        IF ShutdownCheck
        THEN /\ ex' = [ex EXCEPT ![i].pc = AfterExecute(i, ErrShutdown),
                                 ![i].tool = name, ![i].err = ErrShutdown]
             /\ obs' = [obs EXCEPT ![i].lateStart = done]
             /\ UNCHANGED running
        ELSE IF ~Registered(name)
        THEN /\ ex' = [ex EXCEPT ![i].pc = AfterExecute(i, ErrToolNotFound),
                                 ![i].tool = name, ![i].err = ErrToolNotFound]
             /\ obs' = [obs EXCEPT ![i].lateStart = done]
             /\ UNCHANGED running
        ELSE /\ ex' = [ex EXCEPT ![i].pc = "acquire", ![i].tool = name]
             /\ obs' = [obs EXCEPT ![i].lateStart = done, ![i].admitted = TRUE]
             /\ running' = running + 1
    /\ UNCHANGED <<sideVars, tools, opts, done, sem, ctx, yieldMu, batch, sd, crashed>>

\* ------------------------------------------------ the deferred functions
\* a recover that sets the named result but leaves summary.Error alone
RecoverKeepsSummary(e) ==
    IF opts.recoverPanics /\ e.panic # "none"
    THEN [e EXCEPT !.err = ErrSystemPanic, !.panic = "none"]
    ELSE e

\* the deferred recover of Execute: with recoverPanics a panic becomes a
\* SystemError in summary.Error and in the named result
RecoverDefer(e) ==
    IF opts.recoverPanics /\ e.panic # "none"
    THEN [e EXCEPT !.summary.Error = ErrSystemPanic, !.err = ErrSystemPanic,
                   !.panic = "none"]
    ELSE e

\* an after hook that is called on the success path only
OnAfterOnSuccess(o, e) ==
    IF opts.onAfter /\ e.summary.Error = ErrNil
    THEN [o EXCEPT !.afterCalls = @ + 1, !.afterSummary = e.summary]
    ELSE o

\* the deferred after-execution hook of Execute: called when configured
OnAfterDefer(o, e) ==
    IF opts.onAfter
    THEN [o EXCEPT !.afterCalls = @ + 1, !.afterSummary = e.summary]
    ELSE o

\* the hooks: onBefore, onChunk and onAfter
Hooks == {"before", "chunk", "after"}

\* hook h is set and panics when it is called
HookPanics(h) == h \in opts.hookPanics

\* tool.Execute has ended with the locals e: the deferred functions run
\* last-registered first (recover, the after hook, cancel), so that a
\* panic of the after hook comes after the recover and goes on;
\* running.Done() and releaseSemaphore() are still to come
ExAfterDefers(e) ==
    [RecoverDefer(e) EXCEPT !.pc = "wgdone", !.raw = NoChunk, !.cur = NoChunk,
                            !.panic = IF HookPanics("after") THEN "after" ELSE @]

\* what the hooks have seen once the deferred recover and after hook ran
ObsAfterDefers(o, e) ==
    [OnAfterDefer(o, RecoverDefer(e)) EXCEPT
        !.active = FALSE,
        !.hookPanic = IF HookPanics("after") THEN "after" ELSE @]

\* Execute after a successful acquire, up to the call of tool.Execute: the
\* deferred release and Done are registered, the summary is created, the
\* before hook is called and, unless it panics, the handler is invoked
StartRun(i) ==
    LET e == [ex[i] EXCEPT !.summary = NewSummary]
        o == [obs[i] EXCEPT !.slot = SemEnabled,
                            !.beforeCalls = IF opts.onBefore THEN @ + 1 ELSE @]
        ePanic == [e EXCEPT !.panic = "before"]
    IN IF opts.onBefore /\ HookPanics("before")
       THEN /\ ex' = [ex EXCEPT ![i] = ExAfterDefers(ePanic)]
            /\ obs' = [obs EXCEPT ![i] =
                          ObsAfterDefers([o EXCEPT !.hookPanic = "before"], ePanic)]
       ELSE /\ ex' = [ex EXCEPT ![i] = [e EXCEPT !.pc = "run"]]
            /\ obs' = [obs EXCEPT ![i] = [o EXCEPT !.handler = @ + 1, !.active = TRUE]]

\* a semaphore that never fills
SlotFreeUnbounded == TRUE

\* case r.sem <- struct{}{}: the send goes through while the channel,
\* of capacity maxConcurrency, is not full
SlotFree == sem < opts.maxConcurrency

\* the states somebody who looks at context c now may find it in: a
\* context that has ended stays ended, a live one may just have ended
CtxSeen(c) == IF ctx[c] = "live" THEN {"live", "canceled", "deadline"} ELSE {ctx[c]}

\* an acquireSemaphore without its first select
CtxDoneFirstSkipped(seen) == FALSE

\* the first select of acquireSemaphore: case <-ctx.Done()
CtxDoneFirst(seen) == seen # "live"

\* acquireSemaphore: no semaphore, or the first select and a free slot
AcquireSemaphore(i) ==
    /\ ~crashed
    /\ ex[i].pc = "acquire"
    /\ IF ~SemEnabled
       THEN StartRun(i) /\ UNCHANGED <<sem, ctx>>
       ELSE \E seen \in CtxSeen(CtxOf(i)) :
            /\ ctx' = [ctx EXCEPT ![CtxOf(i)] = seen]
            /\ IF CtxDoneFirst(seen)
               THEN /\ ex' = [ex EXCEPT ![i].pc = "acqfail", ![i].err = CtxErr(seen)]
                    /\ UNCHANGED <<obs, sem>>
               ELSE IF SlotFree
               THEN StartRun(i) /\ sem' = sem + 1
               ELSE /\ ex' = [ex EXCEPT ![i].pc = "blocked"]
                    /\ UNCHANGED <<obs, sem>>
    /\ UNCHANGED <<sideVars, tools, opts, done, running, yieldMu, batch, sd, crashed>>

\* a wait for a slot that looks at r.done again and gives up
AcquireBlockedSeesDone(i) ==
    /\ ~crashed
    /\ ex[i].pc = "blocked"
    /\ \/ /\ SlotFree
          /\ ~done
          /\ StartRun(i)
          /\ sem' = sem + 1
          /\ UNCHANGED ctx
       \/ /\ done
          /\ ex' = [ex EXCEPT ![i].pc = "waitfail", ![i].err = ErrShutdown]
          /\ UNCHANGED <<obs, sem, ctx>>
       \/ \E seen \in CtxSeen(CtxOf(i)) \ {"live"} :
          /\ ctx' = [ctx EXCEPT ![CtxOf(i)] = seen]
          /\ ex' = [ex EXCEPT ![i].pc = "waitfail", ![i].err = CtxErr(seen)]
          /\ UNCHANGED <<obs, sem>>
    /\ UNCHANGED <<sideVars, tools, opts, done, running, yieldMu, batch, sd, crashed>>

\* acquireSemaphore, blocked in the second select: a slot frees or the
\* context ends
AcquireBlocked(i) ==
    /\ ~crashed
    /\ ex[i].pc = "blocked"
    /\ \/ /\ SlotFree
          /\ StartRun(i)
          /\ sem' = sem + 1
          /\ UNCHANGED ctx
       \/ \E seen \in CtxSeen(CtxOf(i)) \ {"live"} :
          /\ ctx' = [ctx EXCEPT ![CtxOf(i)] = seen]
          /\ ex' = [ex EXCEPT ![i].pc = "waitfail", ![i].err = CtxErr(seen)]
          /\ UNCHANGED <<obs, sem>>
    /\ UNCHANGED <<sideVars, tools, opts, done, running, yieldMu, batch, sd, crashed>>

\* an early return that forgets r.running.Done()
WgDoneForgotten(n) == n

\* r.running.Done()
WgDone(n) == n - 1

\* Execute when acquireSemaphore failed, in its first select ("acqfail") or
\* after waiting for a slot ("waitfail"): running.Done() and the error, a
\* deadline reported as ErrTimeout
AcquireFailed(i) ==
    /\ ~crashed
    /\ ex[i].pc \in {"acqfail", "waitfail"}
    /\ running' = WgDone(running)
    /\ LET e == IF ex[i].err = CtxDeadlineExceeded THEN ErrTimeout ELSE ex[i].err
       IN ex' = [ex EXCEPT ![i].pc = AfterExecute(i, e), ![i].err = e]
    /\ UNCHANGED <<sideVars, tools, opts, done, sem, ctx, obs, yieldMu, batch, sd, crashed>>

\* --------------------------------------------- the handler and the sink
\* the error a sink returns when it rejects a fragment
SinkErr == "sink error"

\* an error of the handler function that is no ClientError
FnErr == "handler error"

SinkResults == {"nil", "reject", "panic"}

\* toolYield of Execute, before the sink: fill CallID and ToolName when the
\* handler left them empty
Stamp(c, id, name) ==
    [c EXCEPT !.CallID = IF c.CallID = 0 THEN id ELSE c.CallID,
              !.ToolName = IF c.ToolName = "" THEN name ELSE c.ToolName]

\* toolYield counting every delivered fragment, error-flagged or not
CountChunkAnyFlag(sum, c, yieldErr) ==
    IF yieldErr = ErrNil
    THEN [sum EXCEPT !.ChunksDelivered = @ + 1, !.TotalBytes = @ + c.Len]
    ELSE sum

\* toolYield of Execute, after the sink: only a delivered fragment that is
\* not error-flagged is counted
CountChunk(sum, c, yieldErr) ==
    IF yieldErr = ErrNil /\ ~c.IsError
    THEN [sum EXCEPT !.ChunksDelivered = @ + 1, !.TotalBytes = @ + c.Len]
    ELSE sum

\* toolYield running the per-fragment hook whatever the sink returned
OnChunkFiresRejected(c, yieldErr) ==
    ~c.IsError /\ opts.onChunk

\* toolYield of Execute: the per-fragment hook runs for a counted fragment
OnChunkFires(c, yieldErr) ==
    yieldErr = ErrNil /\ ~c.IsError /\ opts.onChunk

\* safeYield without its mutex
SafeYieldUnlocked(i) == TRUE

\* safeYield: yieldMu.Lock() lets one goroutine of the batch through
SafeYieldLock(i) == i \in BatchCalls => yieldMu = 0

\* the holder of yieldMu once call i is inside safeYield
Locked(i) == IF i \in BatchCalls THEN i ELSE yieldMu

\* a safeYield that returns without unlocking yieldMu
UnlockForgotten(i) == IF i \in BatchCalls THEN i ELSE yieldMu

\* the holder of yieldMu once call i has left safeYield (deferred Unlock)
Unlocked(i) == IF i \in BatchCalls THEN 0 ELSE yieldMu

\* NewTool yields its marshalled result once; a NewStreamTool function
\* yields as often as it likes, here up to MaxChunks times
ChunkCap(name) == IF name = "single" THEN 1 ELSE MaxChunks

\* NewTool's fragment is Chunk{Event: EventResult, Data: b}; a streaming
\* function builds its fragments itself and may flag them as errors
ErrorFlags(name) == IF name = "single" THEN {FALSE} ELSE BOOLEAN

\* what a handler function can return without a sink rejection: NewTool
\* returns nil only after its one yield
FnResults(name) ==
    IF name = "single" THEN {ErrClient, FnErr} ELSE {ErrNil, ErrClient, FnErr}

\* the payload lengths a handler's fragments can have: NewTool's is the
\* marshalled result, taken to be of the largest length
Lens(name) == IF name = "single" THEN {MaxLen} ELSE 1..MaxLen

\* a call id and a handler name that are not those of the call: a
\* streaming function may fill CallID and ToolName of its fragments itself
OtherID == NumCalls + 1
OtherName == "other"

\* the CallID and ToolName a handler's fragment can carry when it is
\* yielded: NewTool leaves both empty
CallIDs(name) == IF name = "single" THEN {0} ELSE {0, OtherID}
ToolNames(name) == IF name = "single" THEN {""} ELSE {"", OtherName}

\* a toolYield that passes the fragment on as the handler built it
StampedNot(i, raw) == raw

\* the fragment as it reaches the sink: Execute's toolYield stamps it, and
\* in a batch the batch's toolYield stamps it once more
Stamped(i, raw) ==
    LET c == Stamp(raw, i, ex[i].tool)
    IN IF i \in BatchCalls THEN Stamp(c, i, ex[i].tool) ELSE c

\* a sink log that puts the newest fragment first
DeliverReversed(seen, k) == <<k>> \o seen

\* yield(c) is a plain call: the sink gets the k-th fragment of a call when
\* the handler yields it, after all the earlier ones
Deliver(seen, k) == Append(seen, k)

\* some other call of the batch has already failed
SiblingFailed(i) ==
    /\ i \in BatchCalls
    /\ \E j \in BatchCalls \ {i} : Returned(j) /\ ex[j].err # ErrNil

\* a batch toolYield that stops delivering once a sibling call has failed:
\* the fragment is dropped and the handler is told the stream was aborted
HandlerEmitFirstErrorWins(i) ==
    /\ ~crashed
    /\ ex[i].pc = "run"
    /\ ex[i].emitted < ChunkCap(ex[i].tool)
    /\ SafeYieldLock(i)
    /\ IF SiblingFailed(i)
       THEN /\ ex' = [ex EXCEPT ![i].pc = "wgdone", ![i].emitted = @ + 1,
                                ![i].summary.Error = ErrStreamAborted,
                                ![i].err = ErrStreamAborted]
            /\ obs' = [obs EXCEPT ![i].lateEmit = TRUE]
            /\ UNCHANGED yieldMu
       ELSE /\ \E len \in Lens(ex[i].tool) :
                ex' = [ex EXCEPT ![i].pc = "insink", ![i].emitted = @ + 1,
                                 ![i].cur = [CallID |-> i, ToolName |-> ex[i].tool,
                                             IsError |-> FALSE, Len |-> len]]
            /\ obs' = [obs EXCEPT ![i].sinkCalls = @ + 1]
            /\ yieldMu' = Locked(i)
    /\ UNCHANGED <<sideVars, tools, opts, done, running, sem, ctx, batch, sd, crashed>>

\* the handler emits a fragment: Execute's toolYield stamps it, the batch's
\* toolYield passes it to safeYield, and the caller's sink is entered
HandlerEmit(i) ==
    /\ ~crashed
    /\ ex[i].pc = "run"
    /\ ex[i].emitted < ChunkCap(ex[i].tool)
    /\ SafeYieldLock(i)
    /\ \E isErr \in ErrorFlags(ex[i].tool), len \in Lens(ex[i].tool),
          id \in CallIDs(ex[i].tool), name \in ToolNames(ex[i].tool) :
        LET raw == [CallID |-> id, ToolName |-> name, IsError |-> isErr, Len |-> len]
        IN /\ ex' = [ex EXCEPT ![i].pc = "insink", ![i].raw = raw,
                                ![i].cur = Stamped(i, raw), ![i].emitted = @ + 1]
           /\ obs' = [obs EXCEPT ![i].sinkCalls = @ + 1,
                                  ![i].seen = Deliver(@, ex[i].emitted + 1),
                                  ![i].lateEmit = @ \/ SiblingFailed(i)]
    /\ yieldMu' = Locked(i)
    /\ UNCHANGED <<sideVars, tools, opts, done, running, sem, ctx, batch, sd, crashed>>

\* the sink returns (or panics); toolYield counts the fragment and runs the
\* per-fragment hook, which may panic; a handler told of a rejection stops
\* and returns the
\* wrapped error, as the Tool contract requires; NewTool returns after its
\* one fragment
SinkReturn(i) ==
    /\ ~crashed
    /\ ex[i].pc = "insink"
    /\ \E res \in SinkResults :
        LET c == ex[i].cur
            yieldErr == IF res = "nil" THEN ErrNil ELSE SinkErr
            hook == OnChunkFires(c, yieldErr)
            e == wrapYieldError(yieldErr)
            exPanic == [ex[i] EXCEPT !.panic = "sink"]
            exRet == [ex[i] EXCEPT
                        !.summary = [CountChunk(ex[i].summary, c, yieldErr) EXCEPT !.Error = e],
                        !.err = e]
            ob == [obs[i] EXCEPT
                        !.okAll = IF res = "nil" THEN @ + 1 ELSE @,
                        !.okAllBytes = IF res = "nil" THEN @ + c.Len ELSE @,
                        !.okData = IF res = "nil" /\ ~c.IsError THEN @ + 1 ELSE @,
                        !.okDataBytes = IF res = "nil" /\ ~c.IsError THEN @ + c.Len ELSE @,
                        !.rejected = @ \/ res = "reject",
                        !.sinkPanic = @ \/ res = "panic",
                        !.chunkHook = IF hook THEN @ + 1 ELSE @,
                        !.chunkHookBad = @ \/ (hook /\ (res # "nil" \/ c.IsError))]
            exHook == [ex[i] EXCEPT !.panic = "chunk",
                                    !.summary = CountChunk(ex[i].summary, c, yieldErr)]
        IN IF res = "panic"
           THEN /\ ex' = [ex EXCEPT ![i] = ExAfterDefers(exPanic)]
                /\ obs' = [obs EXCEPT ![i] = ObsAfterDefers(ob, exPanic)]
           ELSE IF hook /\ HookPanics("chunk")
           THEN /\ ex' = [ex EXCEPT ![i] = ExAfterDefers(exHook)]
                /\ obs' = [obs EXCEPT ![i] =
                              ObsAfterDefers([ob EXCEPT !.hookPanic = "chunk"], exHook)]
           ELSE IF yieldErr # ErrNil \/ ex[i].tool = "single"
           THEN /\ ex' = [ex EXCEPT ![i] = ExAfterDefers(exRet)]
                /\ obs' = [obs EXCEPT ![i] = ObsAfterDefers(ob, exRet)]
           ELSE /\ ex' = [ex EXCEPT ![i] = [exRet EXCEPT !.pc = "run", !.raw = NoChunk, !.cur = NoChunk]]
                /\ obs' = [obs EXCEPT ![i] = ob]
    /\ yieldMu' = Unlocked(i)
    /\ UNCHANGED <<sideVars, tools, opts, done, running, sem, ctx, batch, sd, crashed>>

\* the handler function returns: nil, a ClientError or another error, which
\* the builder wraps as a SystemError; Execute stores it in summary.Error
HandlerReturn(i) ==
    /\ ~crashed
    /\ ex[i].pc = "run"
    /\ \E r \in FnResults(ex[i].tool) :
        LET e == [ex[i] EXCEPT !.summary.Error = wrapHandlerError(r),
                               !.err = wrapHandlerError(r)]
        IN /\ ex' = [ex EXCEPT ![i] = ExAfterDefers(e)]
           /\ obs' = [obs EXCEPT ![i] = ObsAfterDefers(obs[i], e)]
    /\ UNCHANGED <<sideVars, tools, opts, done, running, sem, ctx, yieldMu, batch, sd, crashed>>

\* the handler function panics
HandlerPanic(i) ==
    /\ ~crashed
    /\ ex[i].pc = "run"
    /\ LET e == [ex[i] EXCEPT !.panic = "handler"]
       IN /\ ex' = [ex EXCEPT ![i] = ExAfterDefers(e)]
          /\ obs' = [obs EXCEPT ![i] = ObsAfterDefers([obs[i] EXCEPT !.handlerPanic = TRUE], e)]
    /\ UNCHANGED <<sideVars, tools, opts, done, running, sem, ctx, yieldMu, batch, sd, crashed>>

\* defer r.running.Done()
RunningDone(i) ==
    /\ ~crashed
    /\ ex[i].pc = "wgdone"
    /\ running' = WgDone(running)
    /\ ex' = [ex EXCEPT ![i].pc = "release"]
    /\ UNCHANGED <<sideVars, tools, opts, done, sem, ctx, obs, yieldMu, batch, sd, crashed>>

\* a release that is written at the end of Execute and not deferred: a
\* panic that goes through Execute leaves the slot taken
ReleaseSemaphoreNotDeferred(i) ==
    /\ ~crashed
    /\ ex[i].pc = "release"
    /\ IF ex[i].panic # "none"
       THEN /\ ex' = [ex EXCEPT ![i].pc = "panicked"]
            /\ crashed' = (i \in BatchCalls)
            /\ UNCHANGED <<sem, obs>>
       ELSE /\ ex' = [ex EXCEPT ![i].pc = AfterExecute(i, ex[i].err)]
            /\ sem' = IF SemEnabled THEN sem - 1 ELSE sem
            /\ obs' = [obs EXCEPT ![i].slot = FALSE]
            /\ UNCHANGED crashed
    /\ UNCHANGED <<sideVars, tools, opts, done, running, ctx, yieldMu, batch, sd>>

\* defer r.releaseSemaphore(), then Execute returns or the panic goes on;
\* a panic that leaves Execute in a batch goroutine ends the process
ReleaseSemaphore(i) ==
    /\ ~crashed
    /\ ex[i].pc = "release"
    /\ sem' = IF SemEnabled THEN sem - 1 ELSE sem
    /\ obs' = [obs EXCEPT ![i].slot = FALSE]
    /\ IF ex[i].panic # "none"
       THEN /\ ex' = [ex EXCEPT ![i].pc = "panicked"]
            /\ crashed' = (i \in BatchCalls)
       ELSE /\ ex' = [ex EXCEPT ![i].pc = AfterExecute(i, ex[i].err)]
            /\ UNCHANGED crashed
    /\ UNCHANGED <<sideVars, tools, opts, done, running, ctx, yieldMu, batch, sd>>

\* --------------------------------------------- Registry.ExecuteBatchStream
\* err.Error() of the errors Execute returns
ErrorText(e) ==
    IF IsSystemError(e) THEN "internal system error during tool execution"
    ELSE IF IsClientError(e) THEN "invalid tool input"
    ELSE e

NoErrChunk == [CallID |-> 0, ToolName |-> "", IsError |-> FALSE, Data |-> ""]

\* ExecuteBatchStream: an empty batch returns nil at once, otherwise one
\* goroutine per call is launched (wg.Go)
BatchStart ==
    /\ ~crashed
    /\ batch.pc = "idle"
    /\ \E n \in {0, NumBatch} :
        batch' = [pc |-> IF n = 0 THEN "returned" ELSE "wait", n |-> n, ret |-> ErrNil,
                  afterShutdown |-> \E s \in Shutdowns : sd[s].pc = "returned"]
    /\ UNCHANGED <<sideVars, tools, opts, done, running, sem, ctx, ex, obs, yieldMu, crashed, sd>>

\* the batch goroutine after Execute returned an error: the error is sent
\* to the sink as an error-flagged fragment, through safeYield
ErrChunkSend(i) ==
    /\ ~crashed
    /\ ex[i].pc = "errchunk"
    /\ SafeYieldLock(i)
    /\ ex' = [ex EXCEPT ![i].pc = "errsink"]
    /\ obs' = [obs EXCEPT
                ![i].errChunks = @ + 1,
                ![i].errChunk = [CallID |-> i, ToolName |-> ex[i].tool,
                                 IsError |-> TRUE, Data |-> ErrorText(ex[i].err)]]
    /\ yieldMu' = Locked(i)
    /\ UNCHANGED <<sideVars, tools, opts, done, running, sem, ctx, batch, sd, crashed>>

\* the sink returns from the error fragment: its result is dropped; a panic
\* of the sink here is recovered by nobody
ErrChunkReturn(i) ==
    /\ ~crashed
    /\ ex[i].pc = "errsink"
    /\ \E res \in SinkResults :
        /\ ex' = [ex EXCEPT ![i].pc = IF res = "panic" THEN "dead" ELSE "returned"]
        /\ crashed' = (res = "panic")
    /\ yieldMu' = Unlocked(i)
    /\ UNCHANGED <<sideVars, tools, opts, done, running, sem, ctx, obs, batch, sd>>

\* a batch that returns without wg.Wait()
BatchAllDoneNoWait == TRUE

\* every goroutine of the batch has finished (wg.Wait returned)
BatchAllDone == \A i \in 1..batch.n : ex[i].pc = "returned"

\* first-error-wins: the batch returns the error of a failed call
BatchResultFirstError(seen) ==
    IF \E i \in BatchCalls : ex[i].err # ErrNil
    THEN ex[CHOOSE i \in BatchCalls : ex[i].err # ErrNil].err
    ELSE ErrNil

\* the result of ExecuteBatchStream when it finds its context in state
\* seen: ctx.Err(), which is nil for a live context
BatchResult(seen) == CtxErr(seen)

\* ExecuteBatchStream after wg.Wait(): ctx.Err() when the context has ended,
\* nil otherwise
BatchReturn ==
    /\ ~crashed
    /\ batch.pc = "wait"
    /\ BatchAllDone
    /\ \E seen \in CtxSeen(BatchCtx) :
        /\ ctx' = [ctx EXCEPT ![BatchCtx] = seen]
        /\ batch' = [batch EXCEPT !.pc = "returned", !.ret = BatchResult(seen)]
    /\ UNCHANGED <<sideVars, tools, opts, done, running, sem, ex, obs, yieldMu, crashed, sd>>

\* -------------------------------------------------------- Registry.Shutdown
\* a Shutdown that never finds r.done closed
DoneClosedNever == FALSE

\* Shutdown's select under r.mu: case <-r.done
DoneClosed == done

\* Shutdown under r.mu: a later caller returns nil, the first closes r.done
ShutdownBegin(s) ==
    /\ ~crashed
    /\ sd[s].pc = "idle"
    /\ IF DoneClosed
       THEN /\ sd' = [sd EXCEPT ![s].pc = "returned", ![s].ret = ErrNil]
            /\ UNCHANGED done
       ELSE /\ sd' = [sd EXCEPT ![s].pc = "waiting", ![s].first = TRUE]
            /\ done' = TRUE
    /\ UNCHANGED <<sideVars, tools, opts, running, sem, ctx, ex, obs, yieldMu, batch, crashed>>

\* a Wait that does not wait
WaitReturnsEarly == TRUE

\* r.running.Wait() returns once the counter is zero
WaitReturns == running = 0

\* Shutdown's goroutine: r.running.Wait() returns at zero, close(done)
ShutdownDrained(s) ==
    /\ ~crashed
    /\ sd[s].pc = "waiting"
    /\ ~sd[s].drained
    /\ WaitReturns
    /\ sd' = [sd EXCEPT ![s].drained = TRUE]
    /\ UNCHANGED <<sideVars, tools, opts, done, running, sem, ctx, ex, obs, yieldMu, batch, crashed>>

\* a Shutdown that reports a deadline as Execute does, as ErrTimeout
ShutdownGaveUpAsTimeout(seen) ==
    IF seen = "deadline" THEN ErrTimeout ELSE CtxErr(seen)

\* Shutdown's case <-ctx.Done(): return ctx.Err()
ShutdownGaveUp(seen) == CtxErr(seen)

\* Shutdown's select: nil once drained, ctx.Err() once the context ended
ShutdownReturn(s) ==
    /\ ~crashed
    /\ sd[s].pc = "waiting"
    /\ \/ /\ sd[s].drained
          /\ sd' = [sd EXCEPT ![s].pc = "returned", ![s].ret = ErrNil]
          /\ UNCHANGED ctx
       \/ \E seen \in CtxSeen(ShutdownCtx(s)) \ {"live"} :
          /\ ctx' = [ctx EXCEPT ![ShutdownCtx(s)] = seen]
          /\ sd' = [sd EXCEPT ![s].pc = "returned", ![s].ret = ShutdownGaveUp(seen)]
    /\ UNCHANGED <<sideVars, tools, opts, done, running, sem, ex, obs, yieldMu, batch, crashed>>

\* ------------------------------------------------------ the specification
\* concurrent direct and batch callers and one Shutdown caller
Next ==
    \/ \E i \in Calls : ExecuteBegin(i)
    \/ \E i \in Calls : AcquireSemaphore(i)
    \/ \E i \in Calls : AcquireBlocked(i)
    \/ \E i \in Calls : AcquireFailed(i)
    \/ \E i \in Calls : HandlerEmit(i)
    \/ \E i \in Calls : SinkReturn(i)
    \/ \E i \in Calls : HandlerReturn(i)
    \/ \E i \in Calls : HandlerPanic(i)
    \/ \E i \in Calls : RunningDone(i)
    \/ \E i \in Calls : ReleaseSemaphore(i)
    \/ \E i \in Calls : ErrChunkSend(i)
    \/ \E i \in Calls : ErrChunkReturn(i)
    \/ BatchStart
    \/ BatchReturn
    \/ \E s \in FirstShutdown : ShutdownBegin(s)
    \/ \E s \in FirstShutdown : ShutdownDrained(s)
    \/ \E s \in FirstShutdown : ShutdownReturn(s)

Spec == Init /\ [][Next]_vars

\* one direct Execute call of a registry that also holds the streaming
\* handler, with Shutdown and cancellation around it; the only caller never
\* finds the semaphore full, so it never waits in acquireSemaphore
InitCall ==
    /\ tools = Builders
    /\ opts \in [maxConcurrency : 0..MaxConc, recoverPanics : BOOLEAN,
                 onAfter : BOOLEAN, onChunk : BOOLEAN,
                 onBefore : {FALSE}, hookPanics : {{}}]
    /\ InitRegistry
    /\ IdleSide

NextCall ==
    \/ \E i \in SoloCalls : ExecuteBegin(i)
    \/ \E i \in SoloCalls : AcquireSemaphore(i)
    \/ \E i \in SoloCalls : AcquireFailed(i)
    \/ \E i \in SoloCalls : HandlerEmit(i)
    \/ \E i \in SoloCalls : SinkReturn(i)
    \/ \E i \in SoloCalls : HandlerReturn(i)
    \/ \E i \in SoloCalls : HandlerPanic(i)
    \/ \E i \in SoloCalls : RunningDone(i)
    \/ \E i \in SoloCalls : ReleaseSemaphore(i)
    \/ \E s \in Shutdowns : ShutdownBegin(s)
    \/ \E s \in Shutdowns : ShutdownDrained(s)
    \/ \E s \in Shutdowns : ShutdownReturn(s)

SpecCall == InitCall /\ [][NextCall]_vars

\* one ExecuteBatchStream invocation whose calls name the streaming handler
\* (or no handler), on a registry with NewRegistry's default recoverPanics
\* and both hooks set and with WithMaxConcurrency(0), no limit, so that no
\* call waits for a slot; nobody else uses the registry
InitBatch ==
    /\ tools = {"stream"}
    /\ opts \in [maxConcurrency : {0}, recoverPanics : {TRUE},
                 onAfter : {TRUE}, onChunk : {TRUE},
                 onBefore : {FALSE}, hookPanics : {{}}]
    /\ InitRegistry
    /\ IdleSide

NextBatch ==
    \/ BatchStart
    \/ \E i \in BatchCalls : ExecuteBegin(i)
    \/ \E i \in BatchCalls : AcquireSemaphore(i)
    \/ \E i \in BatchCalls : HandlerEmit(i)
    \/ \E i \in BatchCalls : SinkReturn(i)
    \/ \E i \in BatchCalls : HandlerReturn(i)
    \/ \E i \in BatchCalls : HandlerPanic(i)
    \/ \E i \in BatchCalls : RunningDone(i)
    \/ \E i \in BatchCalls : ReleaseSemaphore(i)
    \/ \E i \in BatchCalls : ErrChunkSend(i)
    \/ \E i \in BatchCalls : ErrChunkReturn(i)
    \/ BatchReturn

SpecBatch == InitBatch /\ [][NextBatch]_vars

\* the steps of the goroutine that runs Execute for call i
CallStep(i) ==
    \/ ExecuteBegin(i)
    \/ AcquireSemaphore(i)
    \/ AcquireFailed(i)
    \/ HandlerEmit(i)
    \/ SinkReturn(i)
    \/ HandlerReturn(i)
    \/ HandlerPanic(i)
    \/ RunningDone(i)
    \/ ReleaseSemaphore(i)

\* one direct Execute call made with a context that may have ended before
\* the call, on a registry with any concurrency limit, WithMaxConcurrency(-1)
\* included
CtxStates == {"live", "canceled", "deadline"}

InitCtx ==
    /\ tools = Builders
    /\ opts \in [maxConcurrency : (0 - 1)..MaxConc, recoverPanics : BOOLEAN,
                 onAfter : BOOLEAN, onChunk : BOOLEAN,
                 onBefore : {FALSE}, hookPanics : {{}}]
    /\ InitIdle
    /\ IdleSide
    /\ ctx \in {f \in [CtxIds -> CtxStates] :
                    \A c \in CtxIds : c \notin SoloCalls => f[c] = "live"}

NextCtx == \E i \in SoloCalls : CallStep(i)

SpecCtx == InitCtx /\ [][NextCtx]_vars

\* the steps of the goroutine of call i that need nothing but the
\* scheduler and a free slot or a free mutex: all steps of Execute except
\* the end of the caller's context during the wait for a slot, and the
\* sending of the error fragment
FairStep(i) ==
    \/ CallStep(i)
    \/ AcquireBlocked(i) /\ ex'[i].pc = "run"
    \/ ErrChunkSend(i)
    \/ ErrChunkReturn(i)

\* all steps of the goroutine of call i
GoStep(i) ==
    \/ CallStep(i)
    \/ AcquireBlocked(i)
    \/ ErrChunkSend(i)
    \/ ErrChunkReturn(i)

\* a registry with one slot that holds the single-result handler
InitFair ==
    /\ tools = {"single"}
    /\ opts \in [maxConcurrency : {1}, recoverPanics : {TRUE},
                 onAfter : {TRUE}, onChunk : {TRUE},
                 onBefore : {FALSE}, hookPanics : {{}}]
    /\ InitRegistry
    /\ IdleSide

\* one batch with more calls than slots and a direct caller that competes
\* for the one slot
NextFair ==
    \/ BatchStart
    \/ \E i \in Calls : GoStep(i)
    \/ BatchReturn

\* NextFair under a scheduler that keeps running every goroutine that can
\* run, with handlers and sinks that return, and with wg.Wait() returning
\* once the goroutines are through
SpecFair ==
    /\ InitFair
    /\ [][NextFair]_vars
    /\ \A i \in Calls : WF_vars(FairStep(i))
    /\ WF_vars(BatchReturn)

\* one batch with more calls than slots and the first Shutdown
NextDrain ==
    \/ BatchStart
    \/ \E i \in BatchCalls : GoStep(i)
    \/ BatchReturn
    \/ \E s \in FirstShutdown : ShutdownBegin(s)
    \/ \E s \in FirstShutdown : ShutdownDrained(s)
    \/ \E s \in FirstShutdown : ShutdownReturn(s)

\* NextDrain under the same scheduler
SpecDrain ==
    /\ InitFair
    /\ [][NextDrain]_vars
    /\ \A i \in BatchCalls : WF_vars(FairStep(i))

\* an Execute that gives up when the deadline passes: it returns
\* ErrTimeout and leaves the handler running
DeadlineExpiresAbandons(i) ==
    /\ ~crashed
    /\ ex[i].pc \in {"run", "insink"}
    /\ ctx[CtxOf(i)] = "live"
    /\ ctx' = [ctx EXCEPT ![CtxOf(i)] = "deadline"]
    /\ ex' = [ex EXCEPT ![i].pc = "wgdone", ![i].err = ErrTimeout]
    /\ UNCHANGED <<sideVars, tools, opts, done, running, sem, obs, yieldMu, batch, sd, crashed>>

\* the deadline of the call's context passes while tool.Execute is
\* running: ctx.Done() is closed, and Execute, which waits for nothing
\* but the return of tool.Execute, goes on waiting
DeadlineExpires(i) ==
    /\ ~crashed
    /\ ex[i].pc \in {"run", "insink"}
    /\ ctx[CtxOf(i)] = "live"
    /\ ctx' = [ctx EXCEPT ![CtxOf(i)] = "deadline"]
    /\ UNCHANGED <<sideVars, tools, opts, done, running, sem, ex, obs, yieldMu, batch, sd, crashed>>

\* one direct Execute call on a registry with any of the three hooks set,
\* each of which may be a hook that panics, with or without fault
\* recovery, under a context whose deadline may pass during the call
InitFault ==
    /\ tools = Builders
    /\ opts \in {o \in [maxConcurrency : 0..MaxConc, recoverPanics : BOOLEAN,
                         onAfter : BOOLEAN, onChunk : BOOLEAN,
                         onBefore : BOOLEAN, hookPanics : SUBSET Hooks] :
                    /\ "before" \in o.hookPanics => o.onBefore
                    /\ "chunk" \in o.hookPanics => o.onChunk
                    /\ "after" \in o.hookPanics => o.onAfter}
    /\ InitRegistry
    /\ IdleSide

NextFault ==
    \/ \E i \in SoloCalls : CallStep(i)
    \/ \E i \in SoloCalls : DeadlineExpires(i)

SpecFault == InitFault /\ [][NextFault]_vars

\* ------------------------------------------ Register, Use and lookups
\* the state of Execute, ExecuteBatchStream and Shutdown but r.tools' names
engineVars == <<opts, done, running, sem, ctx, ex, obs, yieldMu, batch, sd, crashed>>

\* what Register, Use and the lookups leave alone
tablesRest == <<engineVars, tmo, hx, sch>>

\* h with v noted under k
Noted(h, k, v) == [x \in DOMAIN h \cup {k} |-> IF x = k THEN v ELSE h[x]]

\* Registry.Register(t): the undecorated table takes t, the decorated
\* table takes t wrapped in the stored decorators
Register(t) ==
    /\ reg' = [reg EXCEPT
                  !.rawTools = MapSet(@, t.name, t),
                  !.tools = MapSet(@, t.name, ApplyChain(reg.middlewares, t))]
    /\ tools' = DOMAIN reg'.tools
    /\ regHist' = [regHist EXCEPT
                      !.last = Noted(@, t.name, t),
                      !.afterUse = Noted(@, t.name, TRUE),
                      !.replaced = Noted(@, t.name,
                                         /\ t.name \in DOMAIN regHist.last
                                         /\ \/ regHist.replaced[t.name]
                                            \/ regHist.last[t.name] # t)]
    /\ UNCHANGED <<dcall, tablesRest>>

\* a rebuild that starts from the handler as it is wrapped now
UseBaseWrapped(name) == reg.tools[name]

\* for name, raw := range r.rawTools { t := raw
UseBase(name) == reg.rawTools[name]

\* Registry.Use(middlewares...): the list is stored and every handler of
\* the undecorated table is wrapped anew into the decorated table
Use(ms) ==
    /\ reg' = [reg EXCEPT
                  !.middlewares = ms,
                  !.tools = [n \in DOMAIN reg.tools \cup DOMAIN reg.rawTools |->
                                IF n \in DOMAIN reg.rawTools
                                THEN ApplyChain(ms, UseBase(n))
                                ELSE reg.tools[n]]]
    /\ tools' = DOMAIN reg'.tools
    /\ regHist' = [regHist EXCEPT
                      !.chain = ms,
                      !.afterUse = [n \in DOMAIN @ |-> FALSE],
                      !.rechained = @ \/ (regHist.chain # <<>> /\ ms # regHist.chain)]
    /\ UNCHANGED <<dcall, tablesRest>>

\* the lookup of GetTool and of Execute under r.mu: the caller takes the
\* decorated handler the table holds at this moment
Lookup(c) ==
    /\ dcall[c].pc = "idle"
    /\ ~ShutdownCheck
    /\ \E kind \in {"Execute", "GetTool"}, name \in Builders :
         dcall' = [dcall EXCEPT ![c] =
            IF Registered(name)
            THEN [@ EXCEPT !.pc = IF kind = "GetTool" THEN "got" ELSE "before",
                           !.kind = kind,
                           !.name = name,
                           !.tool = reg.tools[name],
                           !.expect = regHist.last[name],
                           !.chain = regHist.chain,
                           !.afterUse = regHist.afterUse[name],
                           !.replaced = regHist.replaced[name],
                           !.rechained = regHist.rechained]
            ELSE [@ EXCEPT !.pc = "notfound", !.kind = kind, !.name = name]]
    /\ UNCHANGED <<tools, reg, regHist, tablesRest>>

\* a decorator's Execute up to its call of next.Execute
DecoratorBefore(c) ==
    /\ dcall[c].pc = "before"
    /\ dcall[c].depth < Len(dcall[c].tool.wraps)
    /\ dcall' = [dcall EXCEPT
                    ![c].before = Append(@, dcall[c].tool.wraps[dcall[c].depth + 1]),
                    ![c].depth = @ + 1]
    /\ UNCHANGED <<tools, reg, regHist, tablesRest>>

\* the innermost next.Execute: the handler itself runs
ToolRun(c) ==
    /\ dcall[c].pc = "before"
    /\ dcall[c].depth = Len(dcall[c].tool.wraps)
    /\ dcall' = [dcall EXCEPT
                    ![c].ran = Unwrapped(dcall[c].tool),
                    ![c].pc = IF dcall[c].depth = 0 THEN "returned" ELSE "after"]
    /\ UNCHANGED <<tools, reg, regHist, tablesRest>>

\* a decorator's Execute after next.Execute returned
DecoratorAfter(c) ==
    /\ dcall[c].pc = "after"
    /\ dcall' = [dcall EXCEPT
                    ![c].after = Append(@, dcall[c].tool.wraps[dcall[c].depth]),
                    ![c].depth = @ - 1,
                    ![c].pc = IF dcall[c].depth = 1 THEN "returned" ELSE "after"]
    /\ UNCHANGED <<tools, reg, regHist, tablesRest>>

\* the caller is ready for its next lookup
CallAgain(c) ==
    /\ dcall[c].pc \in {"returned", "got", "notfound"}
    /\ dcall' = [dcall EXCEPT ![c] = InitDcall]
    /\ UNCHANGED <<tools, reg, regHist, tablesRest>>

\* a registry fresh from NewRegistry: nothing registered, no decorators
InitReg ==
    /\ tools = {}
    /\ opts = [maxConcurrency |-> MaxConc, recoverPanics |-> TRUE,
               onAfter |-> FALSE, onChunk |-> FALSE,
               onBefore |-> FALSE, hookPanics |-> {}]
    /\ InitRegistry
    /\ IdleSide

NextReg ==
    \/ \E t \in Handlers : Register(t)
    \/ \E ms \in Chains : Use(ms)
    \/ \E c \in SoloCalls : Lookup(c)
    \/ \E c \in SoloCalls : DecoratorBefore(c)
    \/ \E c \in SoloCalls : ToolRun(c)
    \/ \E c \in SoloCalls : DecoratorAfter(c)
    \/ \E c \in SoloCalls : CallAgain(c)

SpecReg == InitReg /\ [][NextReg]_vars

\* ------------------------------------------------ the deadline of a call
\* what the timeouts of a call leave alone
timeRest == <<tools, engineVars, regVars, hx, sch>>

\* Timeout() of the handler as the registry holds it: the outermost
\* timeout decorator with a positive timeout answers, a decorator without
\* one passes the question on, the handler answers with its WithTimeout
RECURSIVE MetaTimeout(_, _)
MetaTimeout(mws, own) ==
    IF mws = <<>> THEN own
    ELSE IF Head(mws) > 0 THEN Head(mws)
    ELSE MetaTimeout(Tail(mws), own)

\* the registry default whatever the handler declares
EffectiveTimeoutDefaultOnly(default, declared) == default

\* timeout := r.opts.timeout; a positive tm.Timeout() replaces it
EffectiveTimeout(default, declared) ==
    IF declared > 0 THEN declared ELSE default

\* context.WithTimeout(ctx, d) at the start of the call: the deadline of
\* the child is d from now, or the parent's when that is earlier
WithTimeout(dl, d) == IF d < dl THEN d ELSE dl

\* Execute once admitted: the timeout is chosen and, when positive, put
\* on the context of the call
ApplyDeadline ==
    /\ tmo.pc = "admitted"
    /\ LET timeout == EffectiveTimeout(tmo.default, MetaTimeout(tmo.mws, tmo.own))
           dl == IF timeout > 0 THEN WithTimeout(tmo.parent, timeout) ELSE tmo.parent
       IN tmo' = [tmo EXCEPT !.pc = "decorators", !.applied = timeout,
                             !.regDl = dl, !.dl = dl]
    /\ UNCHANGED timeRest

\* timeoutTool.Execute: a positive timeout is put on the context, without
\* one the call is passed on as it is
TimeoutToolExecute ==
    /\ tmo.pc = "decorators"
    /\ tmo.depth < Len(tmo.mws)
    /\ LET d == tmo.mws[tmo.depth + 1]
       IN tmo' = [tmo EXCEPT !.depth = @ + 1,
                             !.dl = IF d <= 0 THEN @ ELSE WithTimeout(@, d)]
    /\ UNCHANGED timeRest

\* the handler function starts under the context it was handed
HandlerStarts ==
    /\ tmo.pc = "decorators"
    /\ tmo.depth = Len(tmo.mws)
    /\ tmo' = [tmo EXCEPT !.pc = "ran", !.seen = tmo.dl]
    /\ UNCHANGED timeRest

\* an admitted call of a handler built with WithTimeout(own) and wrapped in
\* timeout decorators mws, on a registry with WithDefaultTimeout(default),
\* made with a context whose deadline is parent
InitTime ==
    /\ tools = {"single"}
    /\ opts = [maxConcurrency |-> MaxConc, recoverPanics |-> TRUE,
               onAfter |-> FALSE, onChunk |-> FALSE,
               onBefore |-> FALSE, hookPanics |-> {}]
    /\ InitRegistry
    /\ IdleTables
    /\ IdleTool
    /\ IdleSchema
    /\ tmo \in {[NoTmo EXCEPT !.pc = "admitted", !.default = d, !.own = o,
                               !.mws = m, !.parent = p, !.regDl = p, !.dl = p,
                               !.seen = p] :
                    d \in Durations, o \in Durations,
                    m \in UNION {[1..n -> Durations] : n \in 0..MaxChain},
                    p \in 1..Never}

NextTime ==
    \/ ApplyDeadline
    \/ TimeoutToolExecute
    \/ HandlerStarts

SpecTime == InitTime /\ [][NextTime]_vars

\* ------------------------------------ the execute closure of a builder
\* what a run of a handler leaves alone
toolRest == <<tools, engineVars, regVars, tmo, sch>>

\* NewTool and NewStreamTool go through Extractor.ParseAndValidate,
\* NewDynamicTool parses and validates against the schema itself
Typed(b) == b \in {"single", "stream"}

\* the run has reached stage st
Stage(h, st) == [h EXCEPT !.pc = st, !.stages = Append(@, st)]

\* parsing or validation ends with error e
Rejected(h, e) == [h EXCEPT !.pc = "checked", !.pverr = e]

\* json.Unmarshal(argsJSON, &v)
Unmarshal ==
    /\ hx.pc = "received"
    /\ hx' = IF hx.payload = "malformed"
             THEN Rejected(hx, JSONParseError)
             ELSE Stage(hx, "parsed")
    /\ UNCHANGED toolRest

\* validateAgainstSchema(resolved, v), Layer 1; the dynamic builder is
\* through with validation after it
ValidateAgainstSchema ==
    /\ hx.pc = "parsed"
    /\ hx' = IF hx.payload = "invalid"
             THEN Rejected(hx, SchemaError)
             ELSE IF Typed(hx.builder)
             THEN Stage(hx, "schema-validated")
             ELSE [Stage(hx, "schema-validated") EXCEPT !.pc = "checked"]
    /\ UNCHANGED toolRest

\* json.Unmarshal(argsJSON, &args) into the input shape
Decode ==
    /\ hx.pc = "schema-validated"
    /\ hx' = IF hx.payload = "undecodable"
             THEN Rejected(hx, JSONParseError)
             ELSE Stage(hx, "decoded")
    /\ UNCHANGED toolRest

\* args.(Validatable) for the value (viaPointer FALSE) and for its
\* address (viaPointer TRUE): the method set of *T holds T's methods too
Implements(shape, viaPointer) ==
    CASE shape = "value" -> TRUE
      [] shape = "ptrtype" -> ~viaPointer
      [] shape = "pointer" -> viaPointer
      [] OTHER -> FALSE

\* typ.Kind() == reflect.Pointer
IsPointerKind(shape) == shape = "ptrtype"

\* runLayer2Validation without its check that args was validated already
AlreadyValidatedNever(first) == FALSE

\* if _, ok := any(args).(Validatable); ok { return nil }
AlreadyValidated(first) == first

\* runLayer2Validation: validateCustom(any(args)), then validateCustom(&args)
\* for a value type that is not Validatable itself; calls counts the
\* invocations of Validate, which returns rule
runLayer2Validation(shape, rule) ==
    LET first == Implements(shape, FALSE)
        n == IF first THEN 1 ELSE 0
    IN IF first /\ rule # NilErr THEN [calls |-> n, err |-> rule]
       ELSE IF AlreadyValidated(first) THEN [calls |-> n, err |-> NilErr]
       ELSE IF IsPointerKind(shape) THEN [calls |-> n, err |-> NilErr]
       ELSE IF Implements(shape, TRUE) THEN [calls |-> n + 1, err |-> rule]
       ELSE [calls |-> n, err |-> NilErr]

\* Layer 2 of ParseAndValidate
Layer2 ==
    /\ hx.pc = "decoded"
    /\ LET r == runLayer2Validation(hx.shape, hx.rule)
           h == [hx EXCEPT !.validateCalls = @ + r.calls]
       IN hx' = IF r.err # NilErr THEN Rejected(h, Layer2Error(r.err))
                ELSE IF r.calls > 0
                THEN [Stage(h, "business-validated") EXCEPT !.pc = "checked"]
                ELSE [h EXCEPT !.pc = "checked"]
    /\ UNCHANGED toolRest

\* a builder that goes on after a failed validation
ReturnOnErrorNever(e) == FALSE

\* if err != nil { return err }
ReturnOnError(e) == e # NilErr

\* the closure after parsing and validation: it returns their error or
\* calls the handler function
AfterParse ==
    /\ hx.pc = "checked"
    /\ hx' = IF ReturnOnError(hx.pverr)
             THEN [hx EXCEPT !.pc = "failed", !.ret = hx.pverr]
             ELSE [Stage(hx, "invoked") EXCEPT !.fnCalls = @ + 1]
    /\ UNCHANGED toolRest

\* a streaming function calls yieldWrapped; the sink takes the fragment
\* or rejects it, and a rejection comes back to the function as
\* wrapYieldError(err); nothing keeps the function from calling again
FnYield ==
    /\ hx.pc = "invoked"
    /\ hx.builder # "single"
    /\ hx.sinkCalls < MaxChunks
    /\ \E res \in {"nil", "reject"} :
         hx' = [hx EXCEPT !.sinkCalls = @ + 1,
                          !.afterReject = IF hx.rejected THEN @ + 1 ELSE @,
                          !.rejected = @ \/ res = "reject",
                          !.yieldErr = IF res = "reject"
                                       THEN wrapYieldChain(<<"plain">>)
                                       ELSE NilErr]
    /\ UNCHANGED toolRest

\* a closure that hands every error of the function to wrapHandlerError
BuilderResultWrapsAll(b, r) == wrapHandlerChain(r)

\* what the closure returns for the error r of the handler function
BuilderResult(b, r) ==
    IF b = "single" THEN wrapHandlerChain(r)
    ELSE IF WrapsClientError(r) THEN r
    ELSE IF Carries(r, ErrStreamAborted) THEN r
    ELSE wrapHandlerChain(r)

\* the handler function returns r
FnReturn ==
    /\ hx.pc = "invoked"
    /\ \E r \in FnErrors :
         hx' = [hx EXCEPT
                  !.fnErr = r,
                  !.ret = BuilderResult(hx.builder, r),
                  !.pc = IF r = NilErr
                         THEN IF hx.builder = "single" THEN "result" ELSE "completed"
                         ELSE IF hx.builder # "single" /\ ~WrapsClientError(r)
                                 /\ Carries(r, ErrStreamAborted)
                         THEN "aborted"
                         ELSE "failed"]
    /\ UNCHANGED toolRest

\* NewTool with the result of the function: json.Marshal, then the one
\* yield, whose rejection becomes wrapYieldError(err)
YieldResult ==
    /\ hx.pc = "result"
    /\ \E res \in {"marshal fails", "nil", "reject"} :
         hx' = IF res = "marshal fails"
               THEN [hx EXCEPT !.pc = "failed", !.ret = <<ErrSystem, "plain">>]
               ELSE IF res = "nil"
               THEN [hx EXCEPT !.pc = "completed", !.sinkCalls = @ + 1]
               ELSE [hx EXCEPT !.pc = "aborted", !.sinkCalls = @ + 1,
                               !.rejected = TRUE,
                               !.ret = wrapYieldChain(<<"plain">>)]
    /\ UNCHANGED toolRest

\* the function panics; the deferred recover of Registry.Execute makes
\* &SystemError{Err: &panicError{p: p}} of it
FnPanic ==
    /\ hx.pc = "invoked"
    /\ opts.recoverPanics
    /\ hx' = [hx EXCEPT !.pc = "failed", !.panicked = TRUE,
                         !.ret = <<ErrSystem, "panic">>]
    /\ UNCHANGED toolRest

\* Error() of the error wrapYieldError returns: the sentinel's text and
\* the text of the sink's error
YieldErrorText(sinkText) == <<"stream aborted">> \o sinkText

\* err.Error(), as the pieces of text it is made of: a SystemError says
\* one fixed sentence whatever it wraps, a ClientError says its Reason, an
\* error made by fmt.Errorf("...: %w", err) says its own words and those
\* of the error it wraps, an errors.New value says its own words
RECURSIVE ErrorString(_)
ErrorString(e) ==
    IF e = NilErr THEN <<>>
    ELSE IF Head(e) = ErrSystem
    THEN <<"internal system error during tool execution">>
    ELSE IF Head(e) = ErrClient THEN <<"invalid tool input", "reason">>
    ELSE IF Head(e) = ErrStreamAborted THEN YieldErrorText(ErrorString(Tail(e)))
    ELSE <<Head(e)>> \o ErrorString(Tail(e))

\* Data: []byte(err.Error()) of the fragment the batch goroutine makes of
\* the error Execute returned
ErrChunkData(e) == ErrorString(e)

\* the goroutine of ExecuteBatchStream after Execute returned an error:
\* the error fragment is built and handed to the sink
ErrChunkOf ==
    /\ hx.pc \in {"aborted", "failed"}
    /\ hx.data = <<>>
    /\ hx' = [hx EXCEPT !.data = ErrChunkData(hx.ret)]
    /\ UNCHANGED toolRest

\* one Execute of a handler made by any builder, for any payload, input
\* shape and business rule; the dynamic builder has no input shape
InitTool ==
    /\ tools = {"single"}
    /\ opts = [maxConcurrency |-> MaxConc, recoverPanics |-> TRUE,
               onAfter |-> FALSE, onChunk |-> FALSE,
               onBefore |-> FALSE, hookPanics |-> {}]
    /\ InitRegistry
    /\ IdleTables
    /\ IdleTime
    /\ IdleSchema
    /\ hx \in {[NoHx EXCEPT !.pc = "received", !.stages = <<"received">>,
                             !.builder = b, !.payload = p, !.shape = sh,
                             !.rule = r] :
                    b \in ToolBuilders, p \in Payloads, sh \in Shapes,
                    r \in RuleErrors}
    /\ hx.shape = "plain" => hx.rule = NilErr
    /\ ~Typed(hx.builder) => hx.shape = "plain"

NextTool ==
    \/ Unmarshal
    \/ ValidateAgainstSchema
    \/ Decode
    \/ Layer2
    \/ AfterParse
    \/ FnYield
    \/ FnReturn
    \/ FnPanic
    \/ YieldResult
    \/ ErrChunkOf

SpecTool == InitTool /\ [][NextTool]_vars

\* ------------------------------------------------ the schema of a handler
schemaRest == <<tools, engineVars, regVars, tmo, hx>>

\* JSON values as json.Unmarshal yields them: a string, a []any and a
\* map[string]any
Str(v) == [t |-> "s", v |-> v]
List(q) == [t |-> "l", l |-> q]
Map(f) == [t |-> "m", m |-> f]
IsMap(x) == x.t = "m"

\* n[k] = v
Put(n, k, v) == [x \in DOMAIN n \cup {k} |-> IF x = k THEN v ELSE n[x]]

\* delete(n, k)
Delete(n, k) == [x \in DOMAIN n \ {k} |-> n[x]]

\* the JSON names the fields of an input contract can have, in the order
\* slices.Sort gives them
FieldNames == <<"id", "name", "ref">>
PropNames == {FieldNames[j] : j \in 1..MaxProps}

\* the schema keywords that name a schema
IDKeywords == {"id", "$id"}

\* the schema of a string field
StringSchema == Map([k \in {"type"} |-> Str("string")])

\* the schema map of an object with the properties props, named by the
\* keyword idKey when there is one
ObjectSchema(props, idKey) ==
    LET n == [k \in {"type", "properties"} |->
                IF k = "type" THEN Str("object") ELSE Map(props)]
    IN IF idKey = "" THEN n ELSE Put(n, idKey, Str("urn:schema"))

\* the properties maps with values from vs
PropMaps(vs) == UNION {[S -> vs] : S \in SUBSET PropNames}

\* the object schemas of nested fields
InnerObjects(idKeys) ==
    {Map(ObjectSchema(p, k)) : p \in PropMaps({StringSchema}), k \in idKeys}

\* the schema maps of contracts with string fields and nested objects
RootObjects(idKeys) ==
    {ObjectSchema(p, k) :
        p \in PropMaps({StringSchema} \cup InnerObjects(idKeys)), k \in idKeys}

\* the schema maps reflected from a Go type: no keyword names a schema
TypedSchemas == RootObjects({""})

\* the schema maps a caller hands to NewDynamicTool: any of the above,
\* named or not, and alternatives under anyOf
DynamicSchemas ==
    RootObjects({""} \cup IDKeywords)
        \cup {Put(ObjectSchema(<<>>, ""), "anyOf", List(<<o>>)) :
                o \in InnerObjects({""} \cup IDKeywords)}

\* enrichSchemaFromStructTags: the description tag of a field goes into
\* the root-level property of that name
enrichSchemaFromStructTags(n, tagged) ==
    IF "properties" \notin DOMAIN n \/ ~IsMap(n["properties"])
       \/ DOMAIN n["properties"].m = {}
    THEN n
    ELSE LET props == n["properties"].m
         IN Put(n, "properties",
                Map([k \in DOMAIN props |->
                        IF IsMap(props[k]) /\ k \in tagged
                        THEN Map(Put(props[k].m, "description", Str("text")))
                        ELSE props[k]]))

\* the keys of props, sorted, as a []any
SortedKeys(props) ==
    LET keys == SelectSeq(FieldNames, LAMBDA k : k \in DOMAIN props)
    IN [j \in 1..Len(keys) |-> Str(keys[j])]

\* the visit of applyStrictMode: a node with properties gets
\* additionalProperties false and all keys of properties as required
StrictVisit(n) ==
    IF "properties" \in DOMAIN n
    THEN LET closed == Put(n, "additionalProperties", Str("false"))
         IN IF IsMap(n["properties"]) /\ DOMAIN n["properties"].m # {}
            THEN Put(closed, "required", List(SortedKeys(n["properties"].m)))
            ELSE closed
    ELSE n

\* the visit of stripSchemaIDs: delete(n, "id"); delete(n, "$id")
StripVisit(n) == Delete(Delete(n, "id"), "$id")

Visit(visit, n) == IF visit = "strict" THEN StrictVisit(n) ELSE StripVisit(n)

\* walkSchema: visit the node, then every map among its values and among
\* the items of its list values
RECURSIVE walkSchema(_, _)
walkSchema(schemaMap, visit) ==
    LET n == Visit(visit, schemaMap)
    IN [k \in DOMAIN n |->
            IF n[k].t = "m" THEN Map(walkSchema(n[k].m, visit))
            ELSE IF n[k].t = "l"
            THEN List([j \in DOMAIN n[k].l |->
                        IF n[k].l[j].t = "m"
                        THEN Map(walkSchema(n[k].l[j].m, visit))
                        ELSE n[k].l[j]])
            ELSE n[k]]

applyStrictMode(schemaMap) == walkSchema(schemaMap, "strict")

stripSchemaIDs(schemaMap) == walkSchema(schemaMap, "strip")

\* generateSchema from the schema map of the reflected type on: the
\* struct tags, strict mode, the identifiers
GenerateSchema ==
    /\ sch.pc = "input"
    /\ sch.builder = "typed"
    /\ \E tagged \in {{}, PropNames} :
        LET enriched == enrichSchemaFromStructTags(sch.in, tagged)
            strict == IF sch.strict THEN applyStrictMode(enriched) ELSE enriched
        IN sch' = [sch EXCEPT !.pc = "built", !.out = stripSchemaIDs(strict)]
    /\ UNCHANGED schemaRest

\* NewDynamicTool on a copy of the caller's schema map: strict mode, the
\* identifiers
NewDynamicTool ==
    /\ sch.pc = "input"
    /\ sch.builder = "dynamic"
    /\ LET strict == IF sch.strict THEN applyStrictMode(sch.in) ELSE sch.in
       IN sch' = [sch EXCEPT !.pc = "built", !.out = stripSchemaIDs(strict)]
    /\ UNCHANGED schemaRest

\* a builder is about to construct the schema of a handler, strict or not
InitSchema ==
    /\ tools = {"single"}
    /\ opts = [maxConcurrency |-> MaxConc, recoverPanics |-> TRUE,
               onAfter |-> FALSE, onChunk |-> FALSE,
               onBefore |-> FALSE, hookPanics |-> {}]
    /\ InitRegistry
    /\ IdleTables
    /\ IdleTime
    /\ IdleTool
    /\ sch \in {[pc |-> "input", builder |-> b, strict |-> st, in |-> n, out |-> <<>>] :
                    b \in {"typed"}, st \in BOOLEAN, n \in TypedSchemas}
               \cup
               {[pc |-> "input", builder |-> b, strict |-> st, in |-> n, out |-> <<>>] :
                    b \in {"dynamic"}, st \in BOOLEAN, n \in DynamicSchemas}

NextSchema ==
    \/ GenerateSchema
    \/ NewDynamicTool

SpecSchema == InitSchema /\ [][NextSchema]_vars

\* =============================================================== claims
\* errors.Is(err, target) for the error values of the model
ErrorsIs(e, target) == e = target

\* call i is between a successful acquire and releaseSemaphore
HoldsSlot(i) == ex[i].pc \in {"run", "insink", "wgdone", "release"}

\* the handler of call i is executing
Executing(i) == ex[i].pc \in {"run", "insink"}

\* call i counts as in flight: after running.Add(1), before running.Done()
InFlight(i) ==
    ex[i].pc \in {"acquire", "blocked", "acqfail", "waitfail", "run", "insink", "wgdone"}

\* the caller's sink is running for call i of the batch
InSink(i) == ex[i].pc \in {"insink", "errsink"}

\* C1: a call that makes its shutdown check after Shutdown closed r.done
\* returns ErrShutdown, and its handler, its hooks and its sink were never
\* invoked, it holds no slot and was never added to the in-flight counter.
C1_RejectedAfterShutdown ==
    \A i \in Calls :
        obs[i].lateStart =>
            /\ Returned(i)
            /\ ex[i].err = ErrShutdown
            /\ obs[i].handler = 0
            /\ obs[i].afterCalls = 0
            /\ obs[i].chunkHook = 0
            /\ obs[i].sinkCalls = 0
            /\ ~HoldsSlot(i)
            /\ ~obs[i].admitted
            /\ ~InFlight(i)

\* a call started after Shutdown, while an earlier call is still running
C1_Witness ==
    \E i, j \in Calls :
        /\ obs[i].lateStart
        /\ Returned(i)
        /\ Executing(j)

\* the first Shutdown has returned nil
DrainedNil(s) == sd[s].pc = "returned" /\ sd[s].first /\ sd[s].ret = ErrNil

\* C2: when the first Shutdown has returned nil the in-flight counter is
\* zero and every admitted call is past its handler and its after hook;
\* and no step of Shutdown changes a call or a call's context.
C2_ShutdownWaitsForInFlight ==
    /\ [](\A s \in Shutdowns :
            DrainedNil(s) =>
                /\ running = 0
                /\ \A i \in Calls :
                    obs[i].admitted =>
                        /\ ~InFlight(i)
                        /\ obs[i].handler = 1 => obs[i].afterCalls = 1)
    /\ [][(sd' # sd) =>
            /\ ex' = ex
            /\ obs' = obs
            /\ \A i \in Calls : ctx'[CtxOf(i)] = ctx[CtxOf(i)]]_vars

\* the first Shutdown returned nil after waiting for a call that ran
C2_Witness ==
    \E s \in Shutdowns : \E i \in Calls :
        /\ DrainedNil(s)
        /\ obs[i].handler = 1
        /\ ~obs[i].lateStart

\* C3: with maxConcurrency N > 0 at most N calls hold a slot, so at most N
\* handlers execute at once, whoever called Execute.
C3_AtMostNSlots ==
    SemEnabled =>
        /\ Cardinality({i \in Calls : HoldsSlot(i)}) <= opts.maxConcurrency
        /\ Cardinality({i \in Calls : Executing(i)}) <= opts.maxConcurrency
        /\ sem = Cardinality({i \in Calls : HoldsSlot(i)})

\* every slot is taken by running handlers of a batch call and a direct
\* call, and another call waits for a slot
C3_Witness ==
    /\ SemEnabled
    /\ \E i \in BatchCalls : Executing(i)
    /\ \E i \in Calls \ BatchCalls : Executing(i)
    /\ \E i \in Calls : ex[i].pc = "blocked"
    /\ Cardinality({i \in Calls : Executing(i)}) = opts.maxConcurrency

\* the goroutine of batch call i has finished
GoroutineDone(i) == ex[i].pc \in {"returned", "dead"}

\* C4: in a batch every fragment a handler emits enters the caller's sink,
\* whatever happened to the other calls, and a failed call is reported by
\* one error-flagged fragment that carries its call id and handler name.
C4_SiblingFragmentsDelivered ==
    \A i \in BatchCalls :
        /\ obs[i].sinkCalls = ex[i].emitted
        /\ (Returned(i) /\ ex[i].err = ErrNil) => obs[i].errChunks = 0
        /\ (Returned(i) /\ ex[i].pc # "errchunk" /\ ex[i].err # ErrNil) =>
                /\ obs[i].errChunks = 1
                /\ obs[i].errChunk.CallID = i
                /\ obs[i].errChunk.ToolName = ex[i].tool
                /\ obs[i].errChunk.IsError

\* a call's fragment was accepted by the sink after a sibling had failed
\* and had been reported by its error fragment
C4_Witness ==
    \E i, j \in BatchCalls :
        /\ i # j
        /\ obs[j].lateEmit
        /\ obs[j].okAll = 1
        /\ GoroutineDone(i)
        /\ obs[i].errChunks = 1

\* C5: the caller's sink of a batch runs for one fragment at a time, be it
\* a result fragment or an error fragment.
C5_SinkSerialized ==
    Cardinality({i \in BatchCalls : InSink(i)}) <= 1

\* a result fragment is in the sink while an error fragment waits for it
C5_Witness ==
    \E i, j \in BatchCalls :
        /\ ex[i].pc = "insink"
        /\ ex[j].pc = "errchunk"

\* the after hook's view of call i: how often it ran and with what summary
HookedOnce(i) == obs[i].afterCalls = 1 /\ obs[i].afterSummary = ex[i].summary

\* C6 as stated: with an after hook configured, every finished call has had
\* the hook invoked exactly once, rejected calls included.
C6_HookOnEveryOutcome ==
    opts.onAfter =>
        \A i \in Calls : Finished(i) => obs[i].afterCalls = 1

\* C6: with an after hook configured, the hook is invoked exactly once, with
\* the final summary, for every call that got past admission (its handler
\* was invoked), whatever the outcome; a call rejected for shutdown, an
\* unknown name or an abandoned admission ends without the hook.
C6_HookOncePerAdmittedCall ==
    opts.onAfter =>
        \A i \in Calls :
            /\ obs[i].afterCalls <= 1
            /\ obs[i].handler = 0 => obs[i].afterCalls = 0
            /\ (Finished(i) /\ obs[i].handler = 1) => HookedOnce(i)
            /\ (Returned(i) /\ obs[i].handler = 1) =>
                    obs[i].afterSummary.Error = ex[i].err

\* a call whose sink rejected a fragment has returned and the hook ran once
C6_Witness ==
    \E i \in Calls :
        /\ opts.onAfter
        /\ Returned(i)
        /\ obs[i].rejected
        /\ HookedOnce(i)

\* a panic was raised in call i, by the handler or by the sink
Faulted(i) == obs[i].handlerPanic \/ obs[i].sinkPanic

\* what C7 promises for a call in which a panic was raised
FaultBecomesSystemError(i) ==
    /\ ~Panicked(i)
    /\ ex[i].panic = "none"
    /\ IsSystemError(ex[i].err)
    /\ opts.onAfter =>
        /\ obs[i].afterCalls = 1
        /\ IsSystemError(obs[i].afterSummary.Error)
        /\ obs[i].afterSummary.Error = ex[i].err

RejectedNth(i) == obs[i].rejected /\ Finished(i)

BatchReturned == batch.pc = "returned"

BatchAfterShutdown == BatchReturned /\ batch.n > 0 /\ batch.afterShutdown

\* C11: an ExecuteBatchStream with at least one call, made after Shutdown
\* has returned and under a context that has not ended, returns ErrShutdown.
C11_BatchReturnsErrShutdown ==
    (BatchAfterShutdown /\ ctx[BatchCtx] = "live") => ErrorsIs(batch.ret, ErrShutdown)

\* the batch has returned and the sink had rejected a result fragment of
\* one of its calls
BatchSinkRejected == BatchReturned /\ \E i \in 1..batch.n : obs[i].rejected

\* C12: when the sink rejected a fragment during ExecuteBatchStream (and the
\* batch context has not ended), ExecuteBatchStream returns an error that is
\* ErrStreamAborted.
C12_BatchReturnsErrStreamAborted ==
    (BatchSinkRejected /\ ctx[BatchCtx] = "live") =>
        ErrorsIs(batch.ret, ErrStreamAborted)

\* call i of the batch has ended: its goroutine is over, it holds no slot,
\* is not counted in flight and is not in the sink
CallEnded(i) ==
    /\ ex[i].pc = "returned"
    /\ ~HoldsSlot(i)
    /\ ~InFlight(i)
    /\ ~InSink(i)

\* C13: ExecuteBatchStream returns only after every call of the batch has
\* ended, and after it has returned nothing happens any more on behalf of
\* the batch: no sink invocation, no hook, no step of one of its calls.
C13_BatchReturnsAfterAllCalls ==
    /\ [](BatchReturned =>
            /\ \A i \in 1..batch.n : CallEnded(i)
            /\ yieldMu = 0)
    /\ [][BatchReturned =>
            \A i \in BatchCalls : ex'[i] = ex[i] /\ obs'[i] = obs[i]]_vars

\* the batch has returned after its calls used the sink, while a direct
\* call is still executing
C13_Witness ==
    /\ BatchReturned
    /\ batch.n > 0
    /\ \A i \in 1..batch.n : obs[i].sinkCalls = 1
    /\ \E i \in 1..batch.n : obs[i].errChunks = 1
    /\ \E i \in Calls \ BatchCalls : Executing(i)

\* the fragments 1..n of a call in the order the handler yielded them
Produced(n) == [k \in 1..n |-> k]

\* C14: the sink has received the fragments of each call in the order the
\* call's handler yielded them, none missing and none twice, whatever the
\* other calls of the batch did in between.
C14_FragmentsInHandlerOrder ==
    \A i \in Calls : obs[i].seen = Produced(ex[i].emitted)

\* the second fragment of one call is in the sink while another call of the
\* batch is between its first and its next fragment
C14_Witness ==
    \E i, j \in BatchCalls :
        /\ i # j
        /\ ex[i].pc = "insink"
        /\ obs[i].seen = <<1, 2>>
        /\ ex[j].pc = "run"
        /\ obs[j].seen = <<1>>

\* the fragment of call i now in the sink carries the call's id and name
TaggedWithCall(i) ==
    ex[i].cur.CallID = i /\ ex[i].cur.ToolName = ex[i].tool

\* the error fragment of call i carries the call's id and name
ErrChunkTagged(i) ==
    obs[i].errChunks > 0 =>
        obs[i].errChunk.CallID = i /\ obs[i].errChunk.ToolName = ex[i].tool

\* C15 as stated: every fragment that reaches the sink of a batch carries
\* the call id and the handler name of the call that produced it.
C15_EveryFragmentTagged ==
    \A i \in BatchCalls :
        /\ ex[i].pc = "insink" => TaggedWithCall(i)
        /\ ErrChunkTagged(i)

\* C15: a fragment that reaches the sink of a batch carries the call id and
\* the handler name of its call where the handler left the field empty, and
\* the handler's own value where it set one; the error fragment of a failed
\* call always carries the call's id and name.
C15_FragmentTaggedWhereEmpty ==
    \A i \in BatchCalls :
        /\ ex[i].pc = "insink" =>
            /\ ex[i].cur.CallID = (IF ex[i].raw.CallID = 0 THEN i ELSE ex[i].raw.CallID)
            /\ ex[i].cur.ToolName =
                    (IF ex[i].raw.ToolName = "" THEN ex[i].tool ELSE ex[i].raw.ToolName)
            /\ ex[i].cur.IsError = ex[i].raw.IsError
            /\ ex[i].cur.Len = ex[i].raw.Len
        /\ ErrChunkTagged(i)

\* a fragment the handler left untagged is in the sink with the tags of its
\* call, after a sibling's fragment
C15_Witness ==
    \E i, j \in BatchCalls :
        /\ i # j
        /\ ex[i].pc = "insink"
        /\ ex[i].raw.CallID = 0
        /\ ex[i].raw.ToolName = ""
        /\ TaggedWithCall(i)
        /\ obs[j].sinkCalls > 0

\* Shutdown caller s found r.done closed: it was not the first
LaterShutdown(s) == sd[s].pc # "idle" /\ ~sd[s].first

\* C16: a Shutdown that is not the first returns nil in its one step,
\* without waiting for anything and without changing the registry or any
\* call, also while a call admitted earlier is in flight; only one Shutdown
\* is ever the first.
C16_LaterShutdownIsNoOp ==
    /\ [](/\ Cardinality({s \in Shutdowns : sd[s].first}) <= 1
          /\ \A s \in Shutdowns :
                LaterShutdown(s) =>
                    sd[s].pc = "returned" /\ sd[s].ret = ErrNil /\ ~sd[s].drained)
    /\ [][\A s \in Shutdowns :
            (done /\ sd[s].pc = "idle" /\ sd'[s].pc # "idle") =>
                /\ LaterShutdown(s)'
                /\ <<tools, opts, done, running, sem, ctx, ex, obs>>'
                        = <<tools, opts, done, running, sem, ctx, ex, obs>>
                /\ \A t \in Shutdowns \ {s} : sd'[t] = sd[t]]_vars

\* a later Shutdown has returned nil while the first still waits for a
\* call whose handler is executing
C16_Witness ==
    \E s, t \in Shutdowns : \E i \in Calls :
        /\ LaterShutdown(s)
        /\ sd[s].pc = "returned"
        /\ sd[t].first
        /\ sd[t].pc = "waiting"
        /\ Executing(i)
        /\ running > 0

\* SpecCall with a scheduler that keeps running a goroutine that can run,
\* and a handler and a sink that return
SpecCallFair == SpecCall /\ \A i \in SoloCalls : WF_vars(CallStep(i))

\* the first Shutdown gave up: it returned the error of its context
GaveUp(s) == sd[s].pc = "returned" /\ sd[s].first /\ sd[s].ret # ErrNil

\* C17: a first Shutdown whose context ends returns the context's error;
\* the registry stays closed, so a call that starts later gets ErrShutdown;
\* no step of Shutdown touches a call or its context, and a call in flight
\* when Shutdown gave up (and not waiting for a slot) still runs to its end.
C17_ShutdownGivesUpCallsGoOn ==
    /\ [](\A s \in Shutdowns :
            GaveUp(s) =>
                /\ ctx[ShutdownCtx(s)] # "live"
                /\ sd[s].ret = CtxErr(ctx[ShutdownCtx(s)])
                /\ done
                /\ ShutdownCheck)
    /\ [](\A i \in Calls : obs[i].lateStart => ex[i].err = ErrShutdown)
    /\ [][done => done']_vars
    /\ [][\A s \in Shutdowns :
            (~GaveUp(s) /\ GaveUp(s)') =>
                /\ <<running, sem, ex, obs>>' = <<running, sem, ex, obs>>
                /\ \A i \in Calls : ctx'[CtxOf(i)] = ctx[CtxOf(i)]]_vars
    /\ \A i \in SoloCalls :
        ((\E s \in Shutdowns : GaveUp(s)) /\ InFlight(i) /\ ex[i].pc # "blocked")
            ~> Finished(i)

\* Shutdown gave up while a call it should have waited for is executing
C17_Witness ==
    \E s \in Shutdowns : \E i \in Calls :
        /\ GaveUp(s)
        /\ Executing(i)
        /\ ~obs[i].lateStart
        /\ running > 0

\* call i has started and names a handler that is not registered
NamesMissing(i) == ex[i].pc # "idle" /\ ex[i].tool = Missing

\* C18: Execute for a name without a handler returns ErrToolNotFound, or
\* ErrShutdown when Shutdown had begun; either way it is over in its first
\* step, which takes no slot and leaves the in-flight counter alone, and
\* no handler, hook or sink is invoked.
C18_UnknownNameRejected ==
    /\ [](\A i \in Calls :
            NamesMissing(i) =>
                /\ Returned(i)
                /\ ex[i].err = (IF obs[i].lateStart THEN ErrShutdown ELSE ErrToolNotFound)
                /\ ~obs[i].admitted
                /\ ~HoldsSlot(i)
                /\ ~InFlight(i)
                /\ obs[i].handler = 0
                /\ obs[i].afterCalls = 0
                /\ obs[i].chunkHook = 0
                /\ obs[i].sinkCalls = 0)
    /\ [][\A i \in Calls :
            (~NamesMissing(i) /\ NamesMissing(i)') =>
                running' = running /\ sem' = sem]_vars

\* an unknown name was rejected on an open registry with a semaphore and
\* both hooks set
C18_Witness ==
    \E i \in Calls :
        /\ NamesMissing(i)
        /\ ex[i].err = ErrToolNotFound
        /\ ~done
        /\ SemEnabled
        /\ opts.onAfter
        /\ opts.onChunk

\* call i got past the shutdown check and the lookup with a context that
\* has ended
EndedContext(i) == obs[i].admitted /\ ctx[CtxOf(i)] # "live"

\* what C19 promises for such a call: a cancellation or timeout error and
\* no handler invocation
CancelledUnrun(i) ==
    /\ obs[i].handler = 0
    /\ Finished(i) =>
        /\ Returned(i)
        /\ ex[i].err = (IF ctx[CtxOf(i)] = "canceled" THEN CtxCanceled ELSE ErrTimeout)

\* C19 as stated: whatever the concurrency limit, an Execute whose context
\* has ended returns context.Canceled or ErrTimeout and never invokes the
\* handler.
C19_EndedContextAlwaysRejected ==
    \A i \in Calls : EndedContext(i) => CancelledUnrun(i)

\* C19: with a positive concurrency limit, an Execute (of a registered
\* handler, on an open registry) whose context has ended returns
\* context.Canceled or ErrTimeout, never invokes the handler or a hook, holds
\* no slot and is not left in flight.
C19_EndedContextRejectedByLimit ==
    SemEnabled =>
        \A i \in Calls :
            EndedContext(i) =>
                /\ CancelledUnrun(i)
                /\ ~HoldsSlot(i)
                /\ ~obs[i].slot
                /\ obs[i].afterCalls = 0
                /\ obs[i].chunkHook = 0
                /\ obs[i].sinkCalls = 0
                /\ Finished(i) => ~InFlight(i)

\* a call made with a context past its deadline has returned ErrTimeout
C19_Witness ==
    \E i \in Calls :
        /\ SemEnabled
        /\ EndedContext(i)
        /\ Returned(i)
        /\ ex[i].err = ErrTimeout

\* the context of call i ended while the call waited for a slot, and
\* acquireSemaphore has returned its error
WaitAbandoned(i) == ex[i].pc = "waitfail"

\* the errors Execute returns for an abandoned admission
AdmissionErrors == {CtxCanceled, ErrTimeout}

\* nothing of call i was invoked: no handler, no hook, no sink
NothingInvoked(i) ==
    /\ obs[i].handler = 0
    /\ obs[i].afterCalls = 0
    /\ obs[i].chunkHook = 0
    /\ obs[i].sinkCalls = 0

\* C20: when the context of a call ends while the call waits for a slot,
\* Execute returns context.Canceled or ErrTimeout in its next step, which
\* decrements the in-flight counter and takes no slot; the call holds no
\* slot then or later and no handler, hook or sink was invoked for it; the
\* in-flight counter always counts exactly the calls between Add and Done.
C20_AbandonedWaitReleasesCall ==
    /\ [](running = Cardinality({i \in Calls : InFlight(i)}))
    /\ [](\A i \in Calls :
            /\ WaitAbandoned(i) => ~HoldsSlot(i) /\ NothingInvoked(i)
            /\ (Returned(i) /\ obs[i].admitted /\ obs[i].handler = 0) =>
                    /\ ex[i].err \in AdmissionErrors
                    /\ NothingInvoked(i)
                    /\ ~obs[i].slot)
    /\ [][\A i \in Calls :
            (WaitAbandoned(i) /\ ~WaitAbandoned(i)') =>
                /\ Returned(i)'
                /\ ex'[i].err \in AdmissionErrors
                /\ running' = running - 1
                /\ sem' = sem
                /\ obs' = obs]_vars

\* a call gave up waiting while every slot is held by the other calls
C20_Witness ==
    \E i \in Calls :
        /\ WaitAbandoned(i)
        /\ SemEnabled
        /\ sem = opts.maxConcurrency
        /\ \A j \in Calls \ {i} : HoldsSlot(j) \/ ex[j].pc = "blocked"

\* ------------------------------------------------------------------ C21
\* caller c holds a handler it looked up
Holds(c) == dcall[c].pc \in {"got", "before", "after", "returned"}

\* C21: after any Register calls a name maps to the handler registered
\* last under it, in the decorated and in the undecorated table, and a
\* GetTool or Execute that looks the name up afterwards gets that handler
\* and runs it, never one that was replaced.
C21_LastRegisteredWins ==
    /\ DOMAIN reg.tools = DOMAIN regHist.last
    /\ DOMAIN reg.rawTools = DOMAIN regHist.last
    /\ \A n \in DOMAIN regHist.last :
            /\ reg.rawTools[n] = regHist.last[n]
            /\ Unwrapped(reg.tools[n]) = regHist.last[n]
    /\ \A c \in SoloCalls :
            /\ Holds(c) => Unwrapped(dcall[c].tool) = dcall[c].expect
            /\ dcall[c].ran # NoTool => dcall[c].ran = dcall[c].expect

\* an Execute that started after a handler had been replaced under the
\* name has run the replacing handler
C21_Witness ==
    \E c \in SoloCalls :
        /\ dcall[c].pc = "returned"
        /\ dcall[c].replaced
        /\ dcall[c].ran = dcall[c].expect
        /\ dcall[c].ran.id = 2

\* ------------------------------------------------------------------ C22
\* C22: after any Register and Use calls the decorated handler of every
\* name is the latest chain wrapped once around the name's undecorated
\* handler, the two tables have the same names, and a call passes every
\* decorator of the chain once.
C22_ChainAppliedOnce ==
    /\ DOMAIN reg.tools = DOMAIN reg.rawTools
    /\ reg.middlewares = regHist.chain
    /\ \A n \in DOMAIN reg.tools :
            /\ Len(reg.tools[n].wraps) = Len(regHist.chain)
            /\ reg.tools[n] = ApplyChain(regHist.chain, reg.rawTools[n])
            /\ reg.rawTools[n].wraps = <<>>
    /\ \A c \in SoloCalls :
            /\ Len(dcall[c].before) <= Len(dcall[c].chain)
            /\ dcall[c].pc = "returned" =>
                    /\ Len(dcall[c].before) = Len(dcall[c].chain)
                    /\ Len(dcall[c].after) = Len(dcall[c].chain)

\* a call that started after a second Use had replaced a chain has passed
\* the new chain's decorators once each
C22_Witness ==
    \E c \in SoloCalls :
        /\ dcall[c].pc = "returned"
        /\ dcall[c].rechained
        /\ Len(dcall[c].chain) = MaxChain
        /\ Len(dcall[c].before) = MaxChain

\* ------------------------------------------------------------------ C23
\* s back to front
Reversed(s) == [k \in 1..Len(s) |-> s[Len(s) + 1 - k]]

\* s begins with p
IsPrefix(p, s) == Len(p) <= Len(s) /\ p = SubSeq(s, 1, Len(p))

\* C23: whether the handler was registered before or after Use, a call
\* enters the decorators in the order they were given to Use, runs the
\* handler once all were entered, and leaves them in the opposite order.
C23_OnionOrder ==
    \A c \in SoloCalls :
        /\ IsPrefix(dcall[c].before, dcall[c].chain)
        /\ IsPrefix(dcall[c].after, Reversed(dcall[c].chain))
        /\ dcall[c].ran # NoTool => dcall[c].before = dcall[c].chain
        /\ dcall[c].after # <<>> => dcall[c].ran # NoTool
        /\ dcall[c].pc = "returned" => dcall[c].after = Reversed(dcall[c].chain)

\* a handler registered before Use was called through two different
\* decorators
C23_Witness ==
    \E c \in SoloCalls :
        /\ dcall[c].pc = "returned"
        /\ ~dcall[c].afterUse
        /\ Len(dcall[c].chain) = 2
        /\ dcall[c].chain[1] # dcall[c].chain[2]
        /\ dcall[c].before = dcall[c].chain
        /\ dcall[c].after = <<dcall[c].chain[2], dcall[c].chain[1]>>

\* ------------------------------------------------------------------ C24
\* the smaller of two deadlines
Earlier(a, b) == IF a < b THEN a ELSE b

TwoTimeouts(other) ==
    /\ tmo.parent = Never
    /\ tmo.default > 0
    /\ other > 0
    /\ \/ tmo.mws = <<>> /\ tmo.own = other
       \/ tmo.mws = <<other>> /\ tmo.own <= 0

\* C25: with a positive registry default and a positive decorator or
\* handler timeout the handler runs under the earlier of the two deadlines.
C25_HandlerRunsUnderEarlierDeadline ==
    \A other \in Durations :
        (tmo.pc = "ran" /\ TwoTimeouts(other)) =>
            tmo.seen = Earlier(tmo.default, other)

\* ------------------------------------------------------------------ C26
\* the run of the handler has ended
Ended(h) == h.pc \in {"completed", "aborted", "failed"}

\* the handler function was called and returned an error
FnFailed(h) == Ended(h) /\ h.fnCalls > 0 /\ h.fnErr # NilErr

C27_EveryErrorClientOrSystem ==
    \A i \in Calls :
        (Returned(i) /\ ex[i].err # ErrNil) =>
            IsClientError(ex[i].err) # IsSystemError(ex[i].err)

\* ------------------------------------------------------------------ C28
\* the stages of a call in the order of the pipeline
Rank(st) ==
    CASE st = "received" -> 0
      [] st = "parsed" -> 1
      [] st = "schema-validated" -> 2
      [] st = "decoded" -> 3
      [] st = "business-validated" -> 4
      [] st = "invoked" -> 5

\* the run has been through stage st
Passed(h, st) == \E k \in 1..Len(h.stages) : h.stages[k] = st

\* C28: the stages of a run follow the pipeline's order; Validate is
\* called only on a payload that parsed, fits the schema and was decoded;
\* the handler function is called only when parsing and all validation
\* that applies succeeded; when parsing or validation fails the function
\* is never called, no fragment reaches the sink and the error is returned.
C28_PipelineMovesForward ==
    /\ \A k \in 1..(Len(hx.stages) - 1) :
            Rank(hx.stages[k]) < Rank(hx.stages[k + 1])
    /\ hx.validateCalls > 0 =>
            /\ Passed(hx, "parsed")
            /\ Passed(hx, "schema-validated")
            /\ Passed(hx, "decoded")
    /\ hx.fnCalls > 0 =>
            /\ hx.pverr = NilErr
            /\ hx.payload \notin {"malformed", "invalid"}
            /\ Passed(hx, "schema-validated")
            /\ Typed(hx.builder) =>
                    /\ Passed(hx, "decoded")
                    /\ hx.shape # "plain" =>
                            Passed(hx, "business-validated") /\ hx.rule = NilErr
    /\ hx.pverr # NilErr =>
            /\ hx.fnCalls = 0
            /\ hx.sinkCalls = 0
            /\ Ended(hx) => hx.pc = "failed" /\ hx.ret = hx.pverr
    /\ hx.fnCalls <= 1

\* a payload that parsed and fits the schema failed the business rule and
\* the run ended without the function and without a fragment
C28_Witness ==
    /\ Ended(hx)
    /\ hx.stages = <<"received", "parsed", "schema-validated", "decoded">>
    /\ hx.validateCalls = 1
    /\ hx.pverr # NilErr
    /\ hx.fnCalls = 0
    /\ hx.sinkCalls = 0

\* ------------------------------------------------------------------ C29
\* the input shape has a Validate method, on either receiver
HasRule(h) == Typed(h.builder) /\ h.shape # "plain"

\* ParseAndValidate has returned
Checked(h) == h.pc \notin {"idle", "received", "parsed", "schema-validated", "decoded"}

\* C29 as stated: Validate is invoked exactly once for every payload that
\* passes structural validation, and never for one that fails parsing or
\* structural validation.
C29_ValidateOncePerSchemaValidPayload ==
    (HasRule(hx) /\ Checked(hx)) =>
        hx.validateCalls = IF Passed(hx, "schema-validated") THEN 1 ELSE 0

\* C29: Validate is invoked exactly once for every payload that passes
\* structural validation and decodes into the input shape, on the value
\* or on the pointer receiver, and never for a payload that fails
\* parsing, structural validation or decoding.
C29_ValidateOncePerDecodedPayload ==
    (HasRule(hx) /\ Checked(hx)) =>
        hx.validateCalls = IF Passed(hx, "decoded") THEN 1 ELSE 0

\* a shape with Validate on the pointer receiver only was validated once
\* and went on to the handler function
C29_Witness ==
    /\ hx.shape = "pointer"
    /\ hx.pc = "invoked"
    /\ hx.validateCalls = 1

\* ------------------------------------------------------------------ C30
\* Validate was called and returned an error
RuleFailed(h) == Ended(h) /\ h.validateCalls > 0 /\ h.rule # NilErr

\* C30 as stated: a payload that fails the business rule gets a
\* ClientError that carries ErrValidation, whatever Validate returned.
C30_RuleFailureTaggedValidation ==
    RuleFailed(hx) =>
        WrapsClientError(hx.ret) /\ Carries(hx.ret, ErrValidation)

\* C30: a payload that fails the business rule gets a ClientError; when
\* Validate returned a ClientError it is that error unchanged, carrying
\* ErrValidation only if Validate put it there, and otherwise it is a new
\* ClientError that carries ErrValidation.
C30_RuleFailureIsClientError ==
    RuleFailed(hx) =>
        /\ hx.pc = "failed"
        /\ WrapsClientError(hx.ret)
        /\ WrapsClientError(hx.rule) => hx.ret = hx.rule
        /\ ~WrapsClientError(hx.rule) => hx.ret = <<ErrClient, ErrValidation>>
        /\ Carries(hx.ret, ErrValidation) <=>
                (~WrapsClientError(hx.rule) \/ Carries(hx.rule, ErrValidation))

\* Validate returned a SystemError and the call returned a ClientError
\* that carries ErrValidation
C30_Witness ==
    /\ RuleFailed(hx)
    /\ hx.rule = <<ErrSystem, "plain">>
    /\ hx.ret = <<ErrClient, ErrValidation>>

\* ------------------------------------------------------------------ C31
\* the sink rejected a fragment of a run of a streaming or dynamic handler
SinkRejected(h) == h.builder # "single" /\ h.rejected

InternalFailure(h) ==
    /\ h.data # <<>>
    /\ ~WrapsClientError(h.ret)
    /\ h.panicked \/ h.fnErr # NilErr

\* C32: the error fragment of a call that failed with an error that is no
\* ClientError carries the same text whatever the cause; as the text of a
\* SystemError is one fixed sentence, every such fragment carries that
\* sentence and no word of the cause.
C32_ErrChunkTextIndependentOfCause ==
    InternalFailure(hx) =>
        hx.data = <<"internal system error during tool execution">>

\* ------------------------------------------------------------------ C33
\* no Execute is in progress
NoneInProgress == \A i \in Calls : ex[i].pc = "idle" \/ Finished(i)

\* C33: the in-flight counter counts the calls between Add and Done and
\* the semaphore the calls that took a slot and have not released it; a
\* call that was admitted leaves Execute, by a return or by a panic, with
\* its slot released and the counter decremented, each by a step that
\* lowers it by exactly one, and nothing is released again afterwards;
\* when no Execute is in progress no slot is held and the counter is zero.
C33_SlotAndCounterReleasedOnce ==
    /\ [](running = Cardinality({i \in Calls : InFlight(i)}))
    /\ [](sem = Cardinality({i \in Calls : obs[i].slot}))
    /\ [](\A i \in Calls : obs[i].slot => SemEnabled /\ HoldsSlot(i))
    /\ [](\A i \in Calls : Finished(i) => ~InFlight(i) /\ ~obs[i].slot)
    /\ [](NoneInProgress => sem = 0 /\ running = 0)
    /\ [][\A i \in Calls :
            /\ (InFlight(i) /\ ~InFlight(i)') => running' = running - 1
            /\ (obs[i].slot /\ ~obs'[i].slot) => sem' = sem - 1
            /\ Finished(i) => (ex'[i] = ex[i] /\ obs'[i] = obs[i])]_vars

\* a panic left Execute without recovery and the slot the call held is
\* free again
C33_Witness ==
    \E i \in Calls :
        /\ ~opts.recoverPanics
        /\ SemEnabled
        /\ obs[i].admitted
        /\ obs[i].handler = 1
        /\ Panicked(i)
        /\ NoneInProgress
        /\ sem = 0
        /\ running = 0

\* ------------------------------------------------------------------ C34
\* Execute of call i returned because acquireSemaphore gave the call up
\* when its context ended in state c
GaveUpAdmission(i, c) ==
    /\ Returned(i)
    /\ obs[i].admitted
    /\ obs[i].handler = 0
    /\ ctx[CtxOf(i)] = c

\* C34: a call whose admission was given up because its deadline passed
\* and one whose admission was given up because it was cancelled get the
\* same answer from errors.Is(err, ErrTimeout).
C34_DeadlineAndCancelSameClass ==
    \A i, j \in Calls :
        (GaveUpAdmission(i, "deadline") /\ GaveUpAdmission(j, "canceled")) =>
            (ErrorsIs(ex[i].err, ErrTimeout) <=> ErrorsIs(ex[j].err, ErrTimeout))

\* ------------------------------------------------------------------ C39
\* C39: once ExecuteBatchStream has launched its calls it returns (unless
\* a panic nobody recovers ends the process), also with more calls than
\* slots and a direct caller competing for the slot; no call of the batch
\* stays in the wait for a slot or for the sink's mutex for ever.
C39_BatchEventuallyReturns ==
    /\ (batch.pc = "wait") ~> (BatchReturned \/ crashed)
    /\ \A i \in BatchCalls :
            (ex[i].pc \in {"blocked", "errchunk"}) ~>
                (ex[i].pc \notin {"blocked", "errchunk"} \/ crashed)

\* the batch has returned after each of its calls, more than there are
\* slots, ran its handler, one of them failed and was reported through
\* the sink, and the direct caller ran its handler too
C39_Witness ==
    /\ BatchReturned
    /\ batch.n > opts.maxConcurrency
    /\ \A i \in 1..batch.n : obs[i].handler = 1
    /\ \E i \in 1..batch.n : obs[i].errChunks = 1
    /\ \E j \in SoloCalls : obs[j].handler = 1 /\ Finished(j)

\* ------------------------------------------------------------------ C35
\* call i waits for a slot and r.done is closed
WaitsAcrossShutdown(i) == ex[i].pc = "blocked" /\ done

\* C35: a call that passed the shutdown check and still waits for a slot
\* when Shutdown closes r.done is in flight and keeps the first Shutdown
\* from returning nil; the only steps it takes from the wait are into its
\* handler or out with the error of its own context, never ErrShutdown;
\* unless its context ends it does reach its handler; and when the first
\* Shutdown has returned nil the call is through its handler, its after
\* hook and its running.Done().
C35_WaitingCallSurvivesShutdown ==
    /\ [](\A i \in BatchCalls :
            WaitsAcrossShutdown(i) =>
                /\ ~obs[i].lateStart
                /\ InFlight(i)
                /\ running > 0
                /\ \A s \in Shutdowns : ~DrainedNil(s))
    /\ [][\A i \in BatchCalls :
            WaitsAcrossShutdown(i) /\ ex'[i] # ex[i] =>
                \/ /\ ex'[i].pc = "run"
                   /\ obs'[i].handler = obs[i].handler + 1
                \/ /\ ex'[i].pc = "waitfail"
                   /\ ex'[i].err \in {CtxCanceled, CtxDeadlineExceeded}]_vars
    /\ [](\A i \in BatchCalls :
            Finished(i) /\ ex[i].err = ErrShutdown => obs[i].lateStart)
    /\ [](\A s \in Shutdowns : \A i \in BatchCalls :
            DrainedNil(s) /\ obs[i].admitted =>
                /\ ~InFlight(i)
                /\ ~Executing(i)
                /\ obs[i].handler = 1 => obs[i].afterCalls = 1)
    /\ \A i \in BatchCalls :
            WaitsAcrossShutdown(i) ~>
                (obs[i].handler = 1 \/ ex[i].pc = "waitfail" \/ crashed)

\* a call of the batch waits for the slot that has just been freed while
\* the first Shutdown, which closed r.done, waits for the counter
C35_Witness ==
    \E i \in BatchCalls : \E s \in Shutdowns :
        /\ WaitsAcrossShutdown(i)
        /\ SlotFree
        /\ obs[i].handler = 0
        /\ sd[s].pc = "waiting"
        /\ sd[s].first
        /\ ~sd[s].drained

\* ------------------------------------------------------------------ C36
\* a panic was raised in call i before its after hook was called: by the
\* handler, the sink, the before hook or the per-fragment hook
FaultBeforeAfterHook(i) ==
    \/ obs[i].handlerPanic
    \/ obs[i].sinkPanic
    \/ obs[i].hookPanic \in {"before", "chunk"}

\* C36: when the after hook was called with a summary whose Error is nil,
\* the handler of the call ran and returned without a panic anywhere in
\* the call, with recoverPanics set or not.
C36_NilSummaryMeansSuccess ==
    \A i \in Calls :
        obs[i].afterCalls = 1 /\ obs[i].afterSummary.Error = ErrNil =>
            /\ obs[i].handler = 1
            /\ ~FaultBeforeAfterHook(i)

\* ------------------------------------------------------------------ C37
\* a panic was raised somewhere in call i, the after hook included
FaultRaised(i) == FaultBeforeAfterHook(i) \/ obs[i].hookPanic = "after"

\* C37: with recoverPanics no panic leaves Execute, whether the handler,
\* the sink, the before hook, the per-fragment hook or the after hook
\* raised it; the call returns a SystemError instead.
C37_NoPanicEscapesExecute ==
    opts.recoverPanics =>
        \A i \in Calls :
            /\ ~Panicked(i)
            /\ FaultRaised(i) /\ Finished(i) => IsSystemError(ex[i].err)

\* ------------------------------------------------------------------ C38
\* C38: while the handler of a call is executing, Execute has not
\* returned, the call is counted in flight and, with a semaphore, holds
\* its slot; the expiry of the call's deadline during that time changes
\* the context and nothing else: not the slots, the counter or the call.
C38_DeadlineFreesNoCapacity ==
    /\ [](\A i \in Calls :
            obs[i].active =>
                /\ Executing(i)
                /\ ~Finished(i)
                /\ InFlight(i)
                /\ running > 0
                /\ SemEnabled => (obs[i].slot /\ HoldsSlot(i) /\ sem > 0))
    /\ [][\A i \in Calls :
            /\ Executing(i)
            /\ ctx[CtxOf(i)] = "live"
            /\ ctx'[CtxOf(i)] = "deadline"
            => /\ sem' = sem
               /\ running' = running
               /\ ex' = ex
               /\ obs' = obs]_vars

\* the handler of a call that holds a slot is still executing after the
\* deadline of the call has passed
C38_Witness ==
    \E i \in Calls :
        /\ obs[i].active
        /\ Executing(i)
        /\ ctx[CtxOf(i)] = "deadline"
        /\ SemEnabled
        /\ obs[i].slot
        /\ sem = 1

\* ------------------------------------------------------------------ C40
\* the properties a schema map declares at its root
DeclaredProps(n) ==
    IF "properties" \in DOMAIN n /\ IsMap(n["properties"])
    THEN DOMAIN n["properties"].m
    ELSE {}

\* the names a schema map requires at its root
RequiredNames(n) ==
    IF "required" \in DOMAIN n
    THEN {n["required"].l[j].v : j \in DOMAIN n["required"].l}
    ELSE {}

\* C40: every property the input contract declares, a property named id
\* included, is a key of properties in the schema the builder ends with,
\* and in strict mode every name in required is a key of properties.
C40_DeclaredPropertiesKept ==
    sch.pc = "built" =>
        /\ DeclaredProps(sch.in) \subseteq DeclaredProps(sch.out)
        /\ sch.strict => RequiredNames(sch.out) \subseteq DeclaredProps(sch.out)
====
